---- MODULE Spec2Model ----
(***************************************************************************)
(* Model of the schema-migration safety gate of snowflake-declarative.     *)
(*                                                                         *)
(* scripts/dependency_checker.py: main() scans the SQL files of the        *)
(* configured folders with the DESTRUCTIVE_PATTERNS regular expressions,   *)
(* resolves every matched identifier with parse_fully_qualified_name,      *)
(* queries the catalog for the dependents of every impacted object,        *)
(* filters the dependents that are dropped in the same run and exits with  *)
(* status 1 when a dependent is left.                                      *)
(*                                                                         *)
(* Text is modelled at the level the code works on it: an identifier is a  *)
(* sequence of one-character strings, a script is a sequence of            *)
(* whitespace-separated words, and the regular expressions are matchers    *)
(* over such words.                                                        *)
(***************************************************************************)
EXTENDS Integers, Sequences, FiniteSets, TLC

VARIABLES
    pc,                          \* position of main(): see the actions
    target_db,                   \* os.environ.get('SNOWFLAKE_DATABASE')
    dry_run,                     \* "--dry-run" is on the command line
    folder,                      \* index into SQL_FOLDERS of the folder being listed
    nfiles,                      \* files of the run read so far
    impacted_objects,            \* dict in insertion order: <<[key, files], ...>>
    conn_open,                   \* a catalog connection is open
    qi,                          \* index of the impacted object being queried
    queried,                     \* keys for which cur.execute was issued, in order
    blocking_dependencies,       \* list of dicts appended by the query loop
    truly_blocking_dependencies, \* the list after the same-run filter
    exit_status,                 \* process exit status; Running while main() runs
    out,                         \* what the run printed last: [kind, name, file]
    last_scan,                   \* history: the file the scan loop read last
    targeted,                    \* history: objects the scripts read so far drop
    failed_queries,              \* history: the queries that raised, [key, text, cause]
    res_in,                      \* identifier resolution alone: the arguments
    res_out,                     \* identifier resolution alone: the result
    env,                         \* two runs of the gate: the scripts and the catalog
    runs,                        \* two runs of the gate: what each run ended with
    steps,                       \* the steps of the pipeline taken after the gate
    clone_pc,                    \* clone_tables.py: position of the script
    clone_env,                   \* clone_tables.py: every required variable is set
    diffs,                       \* clone_tables.py: the files of commit.diff(parent)
    tables_to_clone,             \* clone_tables.py: set of "schema.table" to clone
    pending,                     \* clone_tables.py: tables the last loop has not reached
    cloned,                      \* clone_tables.py: the clones that exist in the catalog
    clone_failed,                \* clone_tables.py: tables whose clone_table printed a warning
    clone_exit,                  \* clone_tables.py: exit status; -1 while it runs
    rt_pc,                       \* rollback_time_travel.py: position of main / rollback_table
    rt_env,                      \* rollback_time_travel.py: the required variables are set
    rt_args,                     \* rollback_time_travel.py: --tables as given
    rt_listing,                  \* rollback_time_travel.py: base tables of the schema
    tables,                      \* rollback_time_travel.py: args.tables not yet rolled back
    table_state,                 \* rollback_time_travel.py: per table, its backup and data
    raised,                      \* rollback_time_travel.py: rollback_table has an exception
    rt_errors,                   \* rollback_time_travel.py: tables whose error was printed
    rt_exit,                     \* rollback_time_travel.py: exit status; -1 while it runs
    attempts,                    \* rollback_time_travel.py: rollback_table calls, how each ended
    rb_pc,                       \* rollback_generator.py: position of main
    rb_files,                    \* rollback_generator.py: the .sql files, setup first
    rb_i,                        \* rollback_generator.py: index of the next file
    pre_image,                   \* rollback_generator.py: catalog columns before the change
    applied,                     \* rollback_generator.py: the change is already applied
    artifacts,                   \* rollback_generator.py: the rollback files written
    lookups,                     \* rollback_generator.py: get_column_type calls and rows
    rb_exit,                     \* rollback_generator.py: exit status; -1 while it runs
    pr_pc,                       \* rollback.py: position of main
    pr_files,                    \* rollback.py: the files of the pull request
    objs,                        \* rollback.py: enrich_pr_files(files)
    pr_i,                        \* rollback.py: index of the next object
    pr_table,                    \* rollback.py: table S.T: columns, data, clones
    issued,                      \* rollback.py: DROP COLUMN statements of the latest table
    pr_exit,                     \* rollback.py: exit status; -1 while it runs
    now,                         \* update_dependency_metadata.py: the clock of the database
    catalog,                     \* update_dependency_metadata.py: rows of OBJECT_DEPENDENCIES
    mirror,                      \* update_dependency_metadata.py: rows of METADATA_TABLE
    refreshes,                   \* update_dependency_metadata.py: runs so far, how each went
    lg_pc,                       \* rollback_logic.py: position of the script
    lg_in,                       \* rollback_logic.py: environment, history, repository
    lg_commit,                   \* rollback_logic.py: LAST_SUCCESSFUL_COMMIT
    rollback_sqls,               \* rollback_logic.py: the list of that name
    lg_executed,                 \* rollback_logic.py: cursor.execute calls, how each ended
    lg_exit                      \* rollback_logic.py: exit status; -1 while it runs

twice_vars == <<env, runs>>

pipeline_vars == <<steps>>

\* the variables of the other programs and of the runs around the gate
clone_vars == <<clone_pc, clone_env, diffs, tables_to_clone, pending, cloned,
                clone_failed, clone_exit>>

restore_vars == <<rt_pc, rt_env, rt_args, rt_listing, tables, table_state, raised,
                  rt_errors, rt_exit, attempts>>

rollback_vars == <<rb_pc, rb_files, rb_i, pre_image, applied, artifacts, lookups, rb_exit>>

pr_vars == <<pr_pc, pr_files, objs, pr_i, pr_table, issued, pr_exit>>

mirror_vars == <<now, catalog, mirror, refreshes>>

logic_vars == <<lg_pc, lg_in, lg_commit, rollback_sqls, lg_executed, lg_exit>>

more_vars == <<pr_vars, mirror_vars, logic_vars>>

aux_vars == <<twice_vars, pipeline_vars, clone_vars, restore_vars, rollback_vars, more_vars>>

vars == <<pc, target_db, dry_run, folder, nfiles, impacted_objects, conn_open, qi,
          queried, blocking_dependencies, truly_blocking_dependencies, exit_status,
          out, last_scan, targeted, failed_queries, res_in, res_out, aux_vars>>

gate_vars == <<pc, target_db, dry_run, folder, nfiles, impacted_objects, conn_open,
               qi, queried, blocking_dependencies, truly_blocking_dependencies,
               exit_status, out, last_scan, targeted, failed_queries>>

-----------------------------------------------------------------------------
(* Characters and strings (sequences of one-character strings).            *)

LowerChars == <<"a", "b", "c", "d", "e", "f", "g", "h", "i", "j", "k", "l", "m",
                "n", "o", "p", "q", "r", "s", "t", "u", "v", "w", "x", "y", "z">>

UpperChars == <<"A", "B", "C", "D", "E", "F", "G", "H", "I", "J", "K", "L", "M",
                "N", "O", "P", "Q", "R", "S", "T", "U", "V", "W", "X", "Y", "Z">>

DigitChars == {"0", "1", "2", "3", "4", "5", "6", "7", "8", "9"}

Range(s) == {s[i] : i \in 1..Len(s)}

\* the upper-case form of every lower-case letter
UpperOf ==
    [a |-> "A", b |-> "B", c |-> "C", d |-> "D", e |-> "E", f |-> "F", g |-> "G",
    h |-> "H", i |-> "I", j |-> "J", k |-> "K", l |-> "L", m |-> "M", n |-> "N", o
    |-> "O", p |-> "P", q |-> "Q", r |-> "R", s |-> "S", t |-> "T", u |-> "U", v
    |-> "V", w |-> "W", x |-> "X", y |-> "Y", z |-> "Z"]

\* the lower-case form of every upper-case letter
LowerOf ==
    [A |-> "a", B |-> "b", C |-> "c", D |-> "d", E |-> "e", F |-> "f", G |-> "g",
    H |-> "h", I |-> "i", J |-> "j", K |-> "k", L |-> "l", M |-> "m", N |-> "n", O
    |-> "o", P |-> "p", Q |-> "q", R |-> "r", S |-> "s", T |-> "t", U |-> "u", V
    |-> "v", W |-> "w", X |-> "x", Y |-> "y", Z |-> "z"]

\* str.upper() on one character
UpperChar(c) == IF c \in DOMAIN UpperOf THEN UpperOf[c] ELSE c

\* str.lower() on one character
LowerChar(c) == IF c \in DOMAIN LowerOf THEN LowerOf[c] ELSE c

\* str.upper()
UpperStr(s) == [i \in 1..Len(s) |-> UpperChar(s[i])]

\* str.lower()
LowerStr(s) == [i \in 1..Len(s) |-> LowerChar(s[i])]

\* str.replace(c, '')
RemoveChar(s, c) == SelectSeq(s, LAMBDA x : x # c)

\* the regular expression class [a-zA-Z0-9_] (also \w for these characters)
WordChars == Range(LowerChars) \cup Range(UpperChars) \cup DigitChars \cup {"_"}

IsWordChar(c) == c \in WordChars

\* index of the first character of s that is in stops, Len(s)+1 when there is none
RECURSIVE FirstIn(_, _, _)
FirstIn(s, stops, i) ==
    IF i > Len(s) THEN Len(s) + 1
    ELSE IF s[i] \in stops THEN i
    ELSE FirstIn(s, stops, i + 1)

\* str.split(sep) for a one-character separator: always at least one part
RECURSIVE Split(_, _)
Split(s, sep) ==
    LET k == FirstIn(s, {sep}, 1)
    IN  IF k > Len(s) THEN <<s>>
        ELSE <<SubSeq(s, 1, k - 1)>> \o Split(SubSeq(s, k + 1, Len(s)), sep)

\* sep.join(parts)
RECURSIVE Join(_, _)
Join(parts, sep) ==
    IF parts = <<>> THEN <<>>
    ELSE IF Len(parts) = 1 THEN parts[1]
    ELSE parts[1] \o sep \o Join(Tail(parts), sep)

\* Python's None, kept apart from every string (whose elements are one character long)
None == <<"<None>">>

\* Python truthiness of an Optional[str]
Truthy(x) == x # None /\ x # <<>>

-----------------------------------------------------------------------------
(* Identifier resolution.                                                  *)

\* the variant that keeps the case and the quotes of the identifier
parse_keeps_text(name_str, default_db, default_schema) ==
    LET parts == Split(name_str, ".")
    IN  IF Len(parts) = 3 THEN <<parts[1], parts[2], parts[3]>>
        ELSE IF Len(parts) = 2 THEN <<default_db, parts[1], parts[2]>>
        ELSE IF Len(parts) = 1
             THEN IF ~Truthy(default_schema) THEN <<None, None, None>>
                  ELSE <<default_db, default_schema, parts[1]>>
        ELSE <<None, None, None>>

\* the variant that guesses a schema for a one-part name without context
parse_guesses_schema(name_str, default_db, default_schema) ==
    LET parts == Split(RemoveChar(UpperStr(name_str), "\""), ".")
    IN  IF Len(parts) = 3 THEN <<parts[1], parts[2], parts[3]>>
        ELSE IF Len(parts) = 2 THEN <<default_db, parts[1], parts[2]>>
        ELSE IF Len(parts) = 1
             THEN IF ~Truthy(default_schema)
                  THEN <<default_db, <<"P", "U", "B", "L", "I", "C">>, parts[1]>>
                  ELSE <<default_db, default_schema, parts[1]>>
        ELSE <<None, None, None>>

parse_fully_qualified_name(name_str, default_db, default_schema) ==
    LET parts == Split(RemoveChar(UpperStr(name_str), "\""), ".")
    IN  IF Len(parts) = 3 THEN <<parts[1], parts[2], parts[3]>>
        ELSE IF Len(parts) = 2 THEN <<default_db, parts[1], parts[2]>>
        ELSE IF Len(parts) = 1
             THEN IF ~Truthy(default_schema) THEN <<None, None, None>>
                  ELSE <<default_db, default_schema, parts[1]>>
        ELSE <<None, None, None>>

-----------------------------------------------------------------------------
(* SQL text and the regular expressions of DESTRUCTIVE_PATTERNS.           *)
(* A script is the sequence of its whitespace-separated words (\s+ of the  *)
(* expressions is the gap between two words).  A ';' or '(' only follows   *)
(* the last identifier of a statement in the same word, so that a search   *)
(* that resumes after a match resumes at the next word.                    *)

KW_DROP == <<"D", "R", "O", "P">>
KW_TABLE == <<"T", "A", "B", "L", "E">>
KW_VIEW == <<"V", "I", "E", "W">>
KW_FUNCTION == <<"F", "U", "N", "C", "T", "I", "O", "N">>
KW_PROCEDURE == <<"P", "R", "O", "C", "E", "D", "U", "R", "E">>
KW_STAGE == <<"S", "T", "A", "G", "E">>
KW_FILE == <<"F", "I", "L", "E">>
KW_FORMAT == <<"F", "O", "R", "M", "A", "T">>
KW_SEQUENCE == <<"S", "E", "Q", "U", "E", "N", "C", "E">>
KW_TRUNCATE == <<"T", "R", "U", "N", "C", "A", "T", "E">>
KW_ALTER == <<"A", "L", "T", "E", "R">>
KW_COLUMN == <<"C", "O", "L", "U", "M", "N">>
KW_IF == <<"I", "F">>
KW_EXISTS == <<"E", "X", "I", "S", "T", "S">>
KW_STREAM == <<"S", "T", "R", "E", "A", "M">>
KW_TASK == <<"T", "A", "S", "K">>
KW_ADD == <<"A", "D", "D">>
KW_NUMBER == <<"N", "U", "M", "B", "E", "R">>
KW_SELECT == <<"S", "E", "L", "E", "C", "T">>

\* KEYWORD\s+ inside an expression under re.IGNORECASE: the word is the keyword
KwAt(text, i, kw) == i >= 1 /\ i <= Len(text) /\ UpperStr(text[i]) = kw

\* \bKEYWORD\s+ at the start of an expression: the word ends with the keyword and
\* the character before it, when there is one, is not a word character
KwStart(text, i, kw) ==
    /\ i >= 1 /\ i <= Len(text)
    /\ LET w == text[i]
           n == Len(w) - Len(kw)
       IN  /\ n >= 0
           /\ UpperStr(SubSeq(w, n + 1, Len(w))) = kw
           /\ (n = 0 \/ ~IsWordChar(w[n]))

\* ([^\s;]+) and ([^\s(;]+): the longest prefix of the word without a stop character
Capture(text, i, stops) ==
    IF i >= 1 /\ i <= Len(text)
    THEN SubSeq(text[i], 1, FirstIn(text[i], stops, 1) - 1)
    ELSE <<>>

AllKw(text, i, kws) == \A k \in 2..Len(kws) : KwAt(text, i + k - 1, kws[k])

NoMatch == [found |-> FALSE, name |-> <<>>, end |-> 0]

\* \bDROP\s+TABLE\s+(?:IF\s+EXISTS\s+)?([^\s;]+) tried at word i; kws is the
\* keyword sequence and stops the characters the captured group excludes.
\* The optional group is greedy: it is tried first and given up when the rest fails.
DropMatchAt(text, i, kws, stops) ==
    LET j == i + Len(kws)
    IN  IF ~(KwStart(text, i, kws[1]) /\ AllKw(text, i, kws)) THEN NoMatch
        ELSE IF KwAt(text, j, KW_IF) /\ KwAt(text, j + 1, KW_EXISTS)
                /\ Capture(text, j + 2, stops) # <<>>
             THEN [found |-> TRUE, name |-> Capture(text, j + 2, stops), end |-> j + 2]
        ELSE IF Capture(text, j, stops) # <<>>
             THEN [found |-> TRUE, name |-> Capture(text, j, stops), end |-> j]
        ELSE NoMatch

\* the rest of the ALTER expression after the optional group:
\* ([^\s]+)\s+DROP\s+COLUMN\s+([^\s;]+) with the table name at word j
AlterRestAt(text, j) ==
    /\ j <= Len(text)
    /\ KwAt(text, j + 1, KW_DROP)
    /\ KwAt(text, j + 2, KW_COLUMN)
    /\ Capture(text, j + 3, {";"}) # <<>>

\* \bALTER\s+TABLE\s+(?:IF\s+EXISTS\s+)?([^\s]+)\s+DROP\s+COLUMN\s+([^\s;]+)
\* tried at word i; group 1 is a whole word
AlterMatchAt(text, i) ==
    LET j == i + 2
    IN  IF ~(KwStart(text, i, KW_ALTER) /\ KwAt(text, i + 1, KW_TABLE)) THEN NoMatch
        ELSE IF KwAt(text, j, KW_IF) /\ KwAt(text, j + 1, KW_EXISTS)
                /\ AlterRestAt(text, j + 2)
             THEN [found |-> TRUE, name |-> text[j + 2], end |-> j + 5]
        ELSE IF AlterRestAt(text, j)
             THEN [found |-> TRUE, name |-> text[j], end |-> j + 3]
        ELSE NoMatch

\* one compiled expression of the table: the domain it is filed under and its shape
DropPattern(domain, kws, stops) ==
    [domain |-> domain, alter |-> FALSE, kws |-> kws, stops |-> stops]

\* the dict DESTRUCTIVE_PATTERNS flattened in its iteration order
DESTRUCTIVE_PATTERNS ==
    << DropPattern("TABLE", <<KW_DROP, KW_TABLE>>, {";"}),
       DropPattern("TABLE", <<KW_TRUNCATE, KW_TABLE>>, {";"}),
       DropPattern("VIEW", <<KW_DROP, KW_VIEW>>, {";"}),
       DropPattern("FUNCTION", <<KW_DROP, KW_FUNCTION>>, {"(", ";"}),
       DropPattern("PROCEDURE", <<KW_DROP, KW_PROCEDURE>>, {"(", ";"}),
       DropPattern("STAGE", <<KW_DROP, KW_STAGE>>, {";"}),
       DropPattern("FILE FORMAT", <<KW_DROP, KW_FILE, KW_FORMAT>>, {";"}),
       DropPattern("SEQUENCE", <<KW_DROP, KW_SEQUENCE>>, {";"}),
       [domain |-> "ALTER_TABLE_DROP_COLUMN", alter |-> TRUE, kws |-> <<>>, stops |-> {}] >>

MatchAt(p, text, i) ==
    IF p.alter THEN AlterMatchAt(text, i) ELSE DropMatchAt(text, i, p.kws, p.stops)

\* regex.finditer(sql_content): the captured names of the non-overlapping matches,
\* left to right, from word i on
RECURSIVE finditer(_, _, _)
finditer(p, text, i) ==
    IF i > Len(text) THEN <<>>
    ELSE LET m == MatchAt(p, text, i)
         IN  IF m.found THEN <<m.name>> \o finditer(p, text, m.end + 1)
             ELSE finditer(p, text, i + 1)

\* the three nested loops of main() over one file, in order: every match as
\* [domain |-> object_domain, name |-> unparsed_name]
RECURSIVE FileMatches(_, _)
FileMatches(text, k) ==
    IF k > Len(DESTRUCTIVE_PATTERNS) THEN <<>>
    ELSE LET p == DESTRUCTIVE_PATTERNS[k]
             object_domain == IF p.domain = "ALTER_TABLE_DROP_COLUMN" THEN "TABLE"
                              ELSE p.domain
             names == finditer(p, text, 1)
         IN  [n \in 1..Len(names) |-> [domain |-> object_domain, name |-> names[n]]]
             \o FileMatches(text, k + 1)

-----------------------------------------------------------------------------
(* The inputs of a run: file names, statements and scripts.                *)

\* 'snowflake/setup', 'snowflake/migrations'
SQL_FOLDERS == <<"snowflake/setup", "snowflake/migrations">>

\* A file name is its stem cut at every "__" and its extension: V1__s__x.sql is
\* [segs |-> <<"V1", "s", "x">>, ext |-> "sql"].  Segments are non-empty runs of
\* word characters.
FN_TAGGED == [segs |-> <<<<"V", "1">>, <<"s">>, <<"x">>>>, ext |-> <<"s", "q", "l">>]
FN_UNTAGGED == [segs |-> <<<<"V", "2">>, <<"x">>>>, ext |-> <<"S", "Q", "L">>]
FN_NOTES == [segs |-> <<<<"n", "o", "t", "e", "s">>>>, ext |-> <<"t", "x", "t">>]

FileNames == {FN_TAGGED, FN_UNTAGGED, FN_NOTES}

\* SCHEMA_FROM_FILENAME_RE.search(fname): group 1 of __([a-zA-Z0-9_]+)__ is the
\* longest run of word characters after the first "__" that a "__" follows, which
\* for such a name is everything between the first and the last "__"
SCHEMA_FROM_FILENAME_RE(fname) ==
    IF Len(fname.segs) >= 3
    THEN Join(SubSeq(fname.segs, 2, Len(fname.segs) - 1), <<"_", "_">>)
    ELSE None

\* schema_match.group(1).upper() if schema_match else None
DefaultSchemaOf(fname) ==
    IF SCHEMA_FROM_FILENAME_RE(fname) = None THEN None
    ELSE UpperStr(SCHEMA_FROM_FILENAME_RE(fname))

\* fname.lower().endswith('.sql')
IsSqlFile(fname) == LowerStr(fname.ext) = <<"s", "q", "l">>

\* raw identifiers as they are written in the scripts
ID_T == <<"t">>
ID_S_T == <<"s", ".", "t">>
ID_P_S_T == <<"p", ".", "s", ".", "t">>
ID_QUOTED == <<"\"", "s", "\"", ".", "\"", "t", "\"">>
ID_FOUR == <<"p", ".", "s", ".", "t", ".", "x">>
ID_EMPTY_PART == <<"s", ".", ".", "t">>
ID_S_V == <<"s", ".", "v">>
ID_S_F == <<"s", ".", "f">>
ID_S_G == <<"s", ".", "g">>
ID_S_ST == <<"s", ".", "s", "t">>

\* A statement as the script's author means it: the operation, the domain of
\* the object, the identifier as written, and how it is spelled.
Stmt(op, domain, name, ifx, lower) ==
    [op |-> op, domain |-> domain, name |-> name, ifx |-> ifx, lower |-> lower]

DropStmts ==
    {Stmt("DROP_OBJECT", "TABLE", n, FALSE, FALSE) :
        n \in {ID_T, ID_S_T, ID_QUOTED, ID_FOUR, ID_EMPTY_PART}}
    \cup {Stmt("DROP_OBJECT", "TABLE", ID_P_S_T, TRUE, TRUE)}
    \cup {Stmt("DROP_OBJECT", "VIEW", ID_S_V, TRUE, FALSE)}
    \cup {Stmt("DROP_OBJECT", "FUNCTION", ID_S_F, FALSE, FALSE)}
    \cup {Stmt("DROP_OBJECT", "FILE FORMAT", ID_S_G, FALSE, FALSE)}
    \cup {Stmt("DROP_OBJECT", "STREAM", ID_S_ST, FALSE, FALSE)}

OtherStmts ==
    { Stmt("TRUNCATE", "TABLE", ID_S_T, FALSE, FALSE),
      Stmt("DROP_COLUMN", "TABLE", ID_S_T, FALSE, FALSE),
      Stmt("DROP_COLUMN", "TABLE", ID_T, TRUE, TRUE),
      Stmt("ADD_COLUMN", "TABLE", ID_S_T, FALSE, FALSE) }

Stmts == DropStmts \cup OtherStmts

\* the statements a script of two statements ends with
SecondStmts ==
    { Stmt("DROP_OBJECT", "VIEW", ID_S_V, TRUE, FALSE),
      Stmt("DROP_OBJECT", "TABLE", ID_T, FALSE, FALSE),
      Stmt("DROP_OBJECT", "STREAM", ID_S_ST, FALSE, FALSE),
      Stmt("TRUNCATE", "TABLE", ID_S_T, FALSE, FALSE) }

\* text that is no statement but reads like one: a line comment
\* (-- DROP TABLE s.t;) and a string literal (SELECT 'DROP TABLE s.t';)
QuietStmts ==
    { Stmt("COMMENT", "TABLE", ID_S_T, FALSE, FALSE),
      Stmt("LITERAL", "TABLE", ID_S_T, FALSE, FALSE) }

Scripts ==
    {<<>>} \cup {<<a>> : a \in Stmts} \cup {<<a, b>> : a \in Stmts, b \in SecondStmts}
    \cup {<<a>> : a \in QuietStmts}

\* the scripts found under a file name that gives no schema
UntaggedScripts ==
    { <<Stmt("DROP_OBJECT", "TABLE", ID_T, FALSE, FALSE)>>,
      <<Stmt("DROP_OBJECT", "TABLE", ID_S_T, FALSE, FALSE)>>,
      <<Stmt("DROP_COLUMN", "TABLE", ID_T, TRUE, TRUE)>>,
      <<Stmt("DROP_OBJECT", "TABLE", ID_FOUR, FALSE, FALSE),
        Stmt("DROP_OBJECT", "TABLE", ID_T, FALSE, FALSE)>>,
      <<Stmt("DROP_OBJECT", "VIEW", ID_S_V, TRUE, FALSE),
        Stmt("DROP_OBJECT", "TABLE", ID_T, FALSE, FALSE)>> }

Files ==
    [name : {FN_TAGGED}, stmts : Scripts]
    \cup [name : {FN_UNTAGGED}, stmts : UntaggedScripts]
    \cup [name : {FN_NOTES}, stmts : {<<>>}]

\* the words of a keyword sequence, in the statement's spelling
Spell(kws, lower) == IF lower THEN [i \in 1..Len(kws) |-> LowerStr(kws[i])] ELSE kws

DomainWords(domain) ==
    CASE domain = "TABLE" -> <<KW_TABLE>>
      [] domain = "VIEW" -> <<KW_VIEW>>
      [] domain = "FUNCTION" -> <<KW_FUNCTION>>
      [] domain = "PROCEDURE" -> <<KW_PROCEDURE>>
      [] domain = "STAGE" -> <<KW_STAGE>>
      [] domain = "FILE FORMAT" -> <<KW_FILE, KW_FORMAT>>
      [] domain = "SEQUENCE" -> <<KW_SEQUENCE>>
      [] domain = "STREAM" -> <<KW_STREAM>>
      [] domain = "TASK" -> <<KW_TASK>>

\* the argument list a routine's name carries in a DROP statement
ArgsOf(domain) == IF domain \in {"FUNCTION", "PROCEDURE"} THEN <<"(", "x", ")">> ELSE <<>>

\* the SQL text of one statement, as words
Render(st) ==
    LET ifx == IF st.ifx THEN Spell(<<KW_IF, KW_EXISTS>>, st.lower) ELSE <<>>
    IN  CASE st.op = "DROP_OBJECT" ->
                Spell(<<KW_DROP>> \o DomainWords(st.domain), st.lower) \o ifx
                \o <<st.name \o ArgsOf(st.domain) \o <<";">> >>
          [] st.op = "TRUNCATE" ->
                Spell(<<KW_TRUNCATE, KW_TABLE>>, st.lower) \o ifx \o <<st.name \o <<";">> >>
          [] st.op = "DROP_COLUMN" ->
                Spell(<<KW_ALTER, KW_TABLE>>, st.lower) \o ifx \o <<st.name>>
                \o Spell(<<KW_DROP, KW_COLUMN>>, st.lower) \o << <<"c", ";">> >>
          [] st.op = "ADD_COLUMN" ->
                Spell(<<KW_ALTER, KW_TABLE>>, st.lower) \o <<st.name>>
                \o Spell(<<KW_ADD, KW_COLUMN>>, st.lower) \o << <<"c">>, KW_NUMBER \o <<";">> >>
          [] st.op = "COMMENT" ->
                << <<"-", "-">> >> \o Spell(<<KW_DROP>> \o DomainWords(st.domain), st.lower)
                \o <<st.name \o <<";">> >>
          [] st.op = "LITERAL" ->
                <<KW_SELECT, <<"'">> \o KW_DROP>> \o DomainWords(st.domain)
                \o <<st.name \o <<"'", ";">> >>

\* f.read(): the text of a script
RECURSIVE RenderAll(_)
RenderAll(stmts) ==
    IF stmts = <<>> THEN <<>> ELSE Render(Head(stmts)) \o RenderAll(Tail(stmts))

\* the statements that drop, truncate or drop a column of an object
Destructive(st) == st.op \in {"DROP_OBJECT", "TRUNCATE", "DROP_COLUMN"}

-----------------------------------------------------------------------------
(* The scan of one file (lines 82-109 of main).                            *)

\* the variant that only rejects None
all_not_none(r) == \A i \in 1..Len(r) : r[i] # None

\* all([db, schema, name])
all_truthy(r) == \A i \in 1..Len(r) : Truthy(r[i])

KeysOf(impacted) == {impacted[i].key : i \in 1..Len(impacted)}

\* if key not in impacted_objects: impacted_objects[key] = []
\* impacted_objects[key].append(fname)
AddImpacted(impacted, key, fname) ==
    IF key \in KeysOf(impacted)
    THEN [i \in 1..Len(impacted) |->
            IF impacted[i].key = key
            THEN [impacted[i] EXCEPT !.files = Append(@, fname)]
            ELSE impacted[i]]
    ELSE Append(impacted, [key |-> key, files |-> <<fname>>])

\* the body of the innermost loop for the matches from the i-th on: the dict
\* after them, or the match at which sys.exit(1) is reached
RECURSIVE ScanMatches(_, _, _, _, _, _)
ScanMatches(matches, i, impacted, fname, default_db, default_schema) ==
    IF i > Len(matches) THEN [impacted |-> impacted, failed |-> FALSE, bad |-> <<>>]
    ELSE LET m == matches[i]
             r == parse_fully_qualified_name(m.name, default_db, default_schema)
         IN  IF ~all_truthy(r)
             THEN [impacted |-> impacted, failed |-> TRUE, bad |-> m.name]
             ELSE ScanMatches(matches, i + 1,
                              AddImpacted(impacted, <<m.domain, r[1], r[2], r[3]>>, fname),
                              fname, default_db, default_schema)

(* What a file holds, told from its statements and not from the scanner.   *)

\* an identifier no (database, schema, name) triple can be read from
Unresolvable(raw, default_schema) ==
    LET parts == Split(RemoveChar(raw, "\""), ".")
    IN  \/ Len(parts) > 3
        \/ \E i \in 1..Len(parts) : parts[i] = <<>>
        \/ Len(parts) = 1 /\ default_schema = None

\* a one-part identifier in a file whose name gives no schema
OnePartNoSchema(raw, default_schema) ==
    Len(Split(raw, ".")) = 1 /\ default_schema = None

\* the objects the statements of a file drop, truncate or drop a column of, one
\* per statement and in the order of the statements
TargetSeqOf(f, default_db) ==
    LET ds == DefaultSchemaOf(f.name)
        hits == SelectSeq(f.stmts, LAMBDA st : Destructive(st) /\ ~Unresolvable(st.name, ds))
    IN  [i \in 1..Len(hits) |->
            <<hits[i].domain>> \o parse_fully_qualified_name(hits[i].name, default_db, ds)]

TargetsOf(f, default_db) == Range(TargetSeqOf(f, default_db))

\* the matches of every file, tabulated
MatchesOf == [f \in Files |-> FileMatches(RenderAll(f.stmts), 1)] @@ <<>>

\* the identifiers the scanner matched in a file that cannot be resolved, in order
UnresolvedOf(f) ==
    LET ms == MatchesOf[f]
        names == [i \in 1..Len(ms) |-> ms[i].name]
    IN  SelectSeq(names, LAMBDA n : Unresolvable(n, DefaultSchemaOf(f.name)))

NoFile == [segs |-> <<>>, ext |-> <<>>]

NoScan == [file |-> NoFile, unresolved |-> <<>>, targets |-> <<>>]

-----------------------------------------------------------------------------
(* The catalog.                                                            *)

ObjectRef(domain, db, schema, name) ==
    [domain |-> domain, db |-> db, schema |-> schema, name |-> name]

\* the objects of the catalog that reference other objects
Dependents ==
    { ObjectRef("VIEW", <<"P">>, <<"S">>, <<"V">>),
      ObjectRef("STREAM", <<"P">>, <<"S">>, <<"S", "T">>) }

NOT_FOUND_TEXT == "does not exist or not authorized"

\* what cur.execute(query) and cur.fetchall() can do.  The catalog words a missing
\* object and an object the role may not see the same way.
Failures ==
    { [kind |-> "ProgrammingError", text |-> NOT_FOUND_TEXT, cause |-> "missing"],
      [kind |-> "ProgrammingError", text |-> NOT_FOUND_TEXT, cause |-> "unauthorized"],
      [kind |-> "ProgrammingError", text |-> "other", cause |-> "other"],
      [kind |-> "Error", text |-> "other", cause |-> "other"] }

NameOf(db, schema, name) == Join(<<db, schema, name>>, <<".">>)

\* the variant that takes no error for a missing object
never_not_found(e) == FALSE

\* "does not exist or not authorized" in str(e)
is_not_found(e) == e.text = NOT_FOUND_TEXT

\* the dict appended for one row of the result
DepDict(key, d) ==
    [dropped_domain |-> key[1],
     dropped_name |-> NameOf(key[2], key[3], key[4]),
     dependent_domain |-> d.domain,
     dependent_name |-> NameOf(d.db, d.schema, d.name)]

\* f"{domain}.{db}.{schema}.{name}": the domain is kept as one element
KeyStr(domain, name) == <<domain, ".">> \o name

\* the variant that filters while the objects are met: a dependent is taken for
\* dropped only when it stands before the object it depends on
filter_earlier_only(deps, impacted) ==
    LET pos(k) == CHOOSE i \in 1..Len(impacted) :
                    KeyStr(impacted[i].key[1],
                           NameOf(impacted[i].key[2], impacted[i].key[3], impacted[i].key[4])) = k
        has(k) == \E i \in 1..Len(impacted) :
                    KeyStr(impacted[i].key[1],
                           NameOf(impacted[i].key[2], impacted[i].key[3], impacted[i].key[4])) = k
    IN  SelectSeq(deps, LAMBDA dep :
            LET dk == KeyStr(dep.dependent_domain, UpperStr(dep.dependent_name))
                ok == KeyStr(dep.dropped_domain, dep.dropped_name)
            IN  ~(has(dk) /\ has(ok) /\ pos(dk) < pos(ok)))

\* lines 173-184: the dependencies whose dependent is not dropped in the same run
filter_same_run(deps, impacted) ==
    LET dropped_object_keys ==
            {KeyStr(k[1], NameOf(k[2], k[3], k[4])) : k \in KeysOf(impacted)}
    IN  SelectSeq(deps, LAMBDA dep :
            KeyStr(dep.dependent_domain, UpperStr(dep.dependent_name))
                \notin dropped_object_keys)

\* the variant that always reports success
decision_always_ok(truly_blocking) == 0

\* the variant that lets a single dependency pass
decision_more_than_one(truly_blocking) == IF Len(truly_blocking) > 1 THEN 1 ELSE 0

\* lines 189-198: the exit status for the filtered list
decision(truly_blocking) == IF truly_blocking # <<>> THEN 1 ELSE 0

-----------------------------------------------------------------------------
(* Bounds of the model.                                                    *)

\* files read in one run
MaxFiles == 2

\* distinct impacted objects one run collects
MaxImpacted == 2

\* characters of an identifier given to the resolver alone
MaxIdLen == 6

\* sequences over S of length at most n
SeqsUpTo(S, n) == UNION {[1..k -> S] : k \in 0..n}

-----------------------------------------------------------------------------
(* main() of dependency_checker.py.                                        *)

NoOutput == [kind |-> "none", name |-> <<>>, file |-> NoFile]

\* the other programs have not run
TwiceIdle == env = <<>> /\ runs = <<>>

PipelineIdle == steps = <<>>

CloneIdle ==
    /\ clone_pc = "idle"
    /\ clone_env = FALSE
    /\ diffs = <<>>
    /\ tables_to_clone = {}
    /\ pending = {}
    /\ cloned = {}
    /\ clone_failed = {}
    /\ clone_exit = -1

RestoreIdle ==
    /\ rt_pc = "idle"
    /\ rt_env = FALSE
    /\ rt_args = <<>>
    /\ rt_listing = <<>>
    /\ tables = <<>>
    /\ table_state = <<>>
    /\ raised = FALSE
    /\ rt_errors = {}
    /\ rt_exit = -1
    /\ attempts = <<>>

RollbackIdle ==
    /\ rb_pc = "idle"
    /\ rb_files = <<>>
    /\ rb_i = 1
    /\ pre_image = <<>>
    /\ applied = 0
    /\ artifacts = <<>>
    /\ lookups = <<>>
    /\ rb_exit = -1

PrIdle ==
    /\ pr_pc = "idle"
    /\ pr_files = <<>>
    /\ objs = <<>>
    /\ pr_i = 1
    /\ pr_table = <<>>
    /\ issued = {}
    /\ pr_exit = -1

MirrorIdle ==
    /\ now = 0
    /\ catalog = {}
    /\ mirror = <<>>
    /\ refreshes = <<>>

LogicIdle ==
    /\ lg_pc = "idle"
    /\ lg_in = <<>>
    /\ lg_commit = <<>>
    /\ rollback_sqls = <<>>
    /\ lg_executed = <<>>
    /\ lg_exit = -1

MoreIdle == PrIdle /\ MirrorIdle /\ LogicIdle

AuxIdle ==
    TwiceIdle /\ PipelineIdle /\ CloneIdle /\ RestoreIdle /\ RollbackIdle /\ MoreIdle

Say(kind) == [kind |-> kind, name |-> <<>>, file |-> NoFile]

Init ==
    /\ pc = "start"
    /\ target_db \in {None, <<"p">>}
    /\ dry_run \in BOOLEAN
    /\ folder = 1
    /\ nfiles = 0
    /\ impacted_objects = <<>>
    /\ conn_open = FALSE
    /\ qi = 1
    /\ queried = <<>>
    /\ blocking_dependencies = <<>>
    /\ truly_blocking_dependencies = <<>>
    /\ exit_status = -1
    /\ out = NoOutput
    /\ last_scan = NoScan
    /\ targeted = {}
    /\ failed_queries = {}
    /\ res_in = <<>>
    /\ res_out = <<>>
    /\ AuxIdle

\* sys.exit(status) after the last message
Exit(status, message) ==
    /\ pc' = "exit"
    /\ exit_status' = status
    /\ out' = message

\* lines 67-70: SNOWFLAKE_DATABASE must be set
CheckEnv ==
    /\ pc = "start"
    /\ IF ~Truthy(target_db)
       THEN Exit(1, Say("no_database"))
       ELSE pc' = "scan" /\ UNCHANGED <<exit_status, out>>
    /\ UNCHANGED <<target_db, dry_run, folder, nfiles, impacted_objects, conn_open, qi,
                   queried, blocking_dependencies, truly_blocking_dependencies,
                   last_scan, targeted, failed_queries, res_in, res_out, aux_vars>>

\* lines 75-77 and the end of the listing of line 78: the folder is no directory,
\* or it has no further file
NextFolder ==
    /\ pc = "scan"
    /\ folder <= Len(SQL_FOLDERS)
    /\ folder' = folder + 1
    /\ UNCHANGED <<pc, target_db, dry_run, nfiles, impacted_objects, conn_open, qi,
                   queried, blocking_dependencies, truly_blocking_dependencies,
                   exit_status, out, last_scan, targeted, failed_queries, res_in, res_out, aux_vars>>

\* lines 78-109: the next file of the folder
ScanFile ==
    /\ pc = "scan"
    /\ folder <= Len(SQL_FOLDERS)
    /\ nfiles < MaxFiles
    /\ \E f \in Files :
        LET default_schema == DefaultSchemaOf(f.name)
            scan == ScanMatches(MatchesOf[f], 1, impacted_objects,
                                f.name, UpperStr(target_db), default_schema)
        IN  IF ~IsSqlFile(f.name)
            THEN /\ UNCHANGED <<pc, impacted_objects, exit_status, out, last_scan, targeted>>
            ELSE /\ last_scan' = [file |-> f.name, unresolved |-> UnresolvedOf(f),
                                  targets |-> TargetSeqOf(f, UpperStr(target_db))]
                 /\ targeted' = targeted \cup TargetsOf(f, UpperStr(target_db))
                 /\ impacted_objects' = scan.impacted
                 /\ Len(scan.impacted) <= MaxImpacted
                 /\ IF scan.failed
                    THEN Exit(1, [kind |-> "unqualified", name |-> scan.bad, file |-> f.name])
                    ELSE UNCHANGED <<pc, exit_status, out>>
    /\ nfiles' = nfiles + 1
    /\ UNCHANGED <<target_db, dry_run, folder, conn_open, qi, queried,
                   blocking_dependencies, truly_blocking_dependencies, failed_queries,
                   res_in, res_out, aux_vars>>

\* lines 111-113: nothing destructive was found
EndScan ==
    /\ pc = "scan"
    /\ folder > Len(SQL_FOLDERS)
    /\ IF impacted_objects = <<>>
       THEN Exit(0, Say("no_destructive"))
       ELSE pc' = "connect" /\ UNCHANGED <<exit_status, out>>
    /\ last_scan' = NoScan
    /\ UNCHANGED <<target_db, dry_run, folder, nfiles, impacted_objects, conn_open, qi,
                   queried, blocking_dependencies, truly_blocking_dependencies,
                   targeted, failed_queries, res_in, res_out, aux_vars>>

\* lines 118-130: snowflake.connector.connect
Connect ==
    /\ pc = "connect"
    /\ \/ /\ conn_open' = TRUE
          /\ pc' = "query"
          /\ UNCHANGED <<exit_status, out>>
       \/ /\ Exit(1, Say("connect_failed"))
          /\ UNCHANGED conn_open
    /\ UNCHANGED <<target_db, dry_run, folder, nfiles, impacted_objects, qi, queried,
                   blocking_dependencies, truly_blocking_dependencies, last_scan,
                   targeted, failed_queries, res_in, res_out, aux_vars>>

\* the rows the catalog can return for an object: WHERE REFERENCING_OBJECT_ID !=
\* REFERENCED_OBJECT_ID leaves the object itself out
RowsFor(key) ==
    LET others == {d \in Dependents : <<d.domain, d.db, d.schema, d.name>> # key}
    IN  {<<>>} \cup {<<d>> : d \in others}
        \cup {p \in others \X others : p[1] # p[2]}

\* lines 134-159: the query of one impacted object returns rows
QueryRows ==
    /\ pc = "query"
    /\ qi <= Len(impacted_objects)
    /\ LET key == impacted_objects[qi].key
       IN  /\ queried' = Append(queried, key)
           /\ \E rows \in RowsFor(key) :
                blocking_dependencies' =
                    blocking_dependencies \o [i \in 1..Len(rows) |-> DepDict(key, rows[i])]
    /\ qi' = qi + 1
    /\ UNCHANGED <<pc, target_db, dry_run, folder, nfiles, impacted_objects, conn_open,
                   truly_blocking_dependencies, exit_status, out, last_scan, targeted,
                   failed_queries, res_in, res_out, aux_vars>>

\* lines 150-151, 160-169: the query of one impacted object raises
QueryFails ==
    /\ pc = "query"
    /\ qi <= Len(impacted_objects)
    /\ LET key == impacted_objects[qi].key
       IN  /\ queried' = Append(queried, key)
           /\ \E e \in Failures :
                /\ failed_queries' = failed_queries
                        \cup {[key |-> key, text |-> e.text, cause |-> e.cause]}
                /\ IF e.kind = "ProgrammingError" /\ is_not_found(e)
                   THEN /\ qi' = qi + 1
                        /\ UNCHANGED <<pc, conn_open, exit_status, out>>
                   ELSE IF e.kind = "ProgrammingError"
                   THEN /\ conn_open' = FALSE
                        /\ Exit(1, Say("database_error"))
                        /\ UNCHANGED qi
                   ELSE /\ Exit(1, Say("traceback"))
                        /\ UNCHANGED <<qi, conn_open>>
    /\ UNCHANGED <<target_db, dry_run, folder, nfiles, impacted_objects,
                   blocking_dependencies, truly_blocking_dependencies, last_scan,
                   targeted, res_in, res_out, aux_vars>>

\* lines 171-198: the same-run filter, the connection is closed, the verdict
FilterAndDecide ==
    /\ pc = "query"
    /\ qi > Len(impacted_objects)
    /\ LET truly == filter_same_run(blocking_dependencies, impacted_objects)
       IN  /\ truly_blocking_dependencies' = truly
           /\ Exit(decision(truly), IF truly # <<>> THEN Say("danger") ELSE Say("success"))
    /\ conn_open' = FALSE
    /\ UNCHANGED <<target_db, dry_run, folder, nfiles, impacted_objects, qi, queried,
                   blocking_dependencies, last_scan, targeted, failed_queries, res_in, res_out, aux_vars>>

Next ==
    \/ CheckEnv
    \/ NextFolder
    \/ ScanFile
    \/ EndScan
    \/ Connect
    \/ QueryRows
    \/ QueryFails
    \/ FilterAndDecide

Spec == Init /\ [][Next]_vars

-----------------------------------------------------------------------------
(* The pipeline around the gate.  The gate is one step of a deployment     *)
(* pipeline: a step that ends with a non-zero status ends the pipeline     *)
(* run, and the preparation of the rollback and of the snapshots, then the *)
(* apply, follow a gate that ended with status 0.                          *)

PipelineSteps == {"ROLLBACK_GENERATED", "SNAPSHOT_TAKEN"}

\* the gate has ended and let the run go on
GatePassed == pc = "exit" /\ exit_status = 0

\* a preparation step after the gate: rollback generation or snapshot
Prepare ==
    /\ GatePassed
    /\ \E s \in PipelineSteps :
        /\ s \notin Range(steps)
        /\ "APPLIED" \notin Range(steps)
        /\ steps' = Append(steps, s)
    /\ UNCHANGED <<gate_vars, res_in, res_out, twice_vars, clone_vars, restore_vars, rollback_vars, more_vars>>

\* the change set is applied (outside of these programs)
Apply ==
    /\ GatePassed
    /\ steps # <<>>
    /\ "APPLIED" \notin Range(steps)
    /\ steps' = Append(steps, "APPLIED")
    /\ UNCHANGED <<gate_vars, res_in, res_out, twice_vars, clone_vars, restore_vars, rollback_vars, more_vars>>

NextPipeline == Next \/ Prepare \/ Apply

SpecPipeline == Init /\ [][NextPipeline]_vars

-----------------------------------------------------------------------------
(* parse_fully_qualified_name on its own.                                  *)

IdChars == {"a", "B", ".", "\""}

Idents == SeqsUpTo(IdChars, MaxIdLen)

InitResolve ==
    /\ res_in \in [name : Idents, default_db : {<<"P">>}, default_schema : {None, <<"S">>}]
    /\ res_out = <<>>
    /\ pc = "idle"
    /\ target_db = None
    /\ dry_run = FALSE
    /\ folder = 1
    /\ nfiles = 0
    /\ impacted_objects = <<>>
    /\ conn_open = FALSE
    /\ qi = 1
    /\ queried = <<>>
    /\ blocking_dependencies = <<>>
    /\ truly_blocking_dependencies = <<>>
    /\ exit_status = -1
    /\ out = NoOutput
    /\ last_scan = NoScan
    /\ targeted = {}
    /\ failed_queries = {}
    /\ AuxIdle

Resolve ==
    /\ res_in # <<>>
    /\ res_out = <<>>
    /\ res_out' = parse_fully_qualified_name(res_in.name, res_in.default_db,
                                             res_in.default_schema)
    /\ UNCHANGED <<res_in, gate_vars, aux_vars>>

NextResolve == Resolve

SpecResolve == InitResolve /\ [][NextResolve]_vars

-----------------------------------------------------------------------------
(* Two runs of the gate on the same scripts and the same catalog.          *)
(* A run is main() from its first line to its sys.exit.  What a run does   *)
(* not get from the scripts and the catalog is free in every run: the      *)
(* order in which os.listdir gives the files of a folder and the order in  *)
(* which the catalog returns the rows of a query without ORDER BY.         *)

\* the scripts a tagged file can hold in these runs
TwiceScripts ==
    { <<Stmt("DROP_OBJECT", "TABLE", ID_S_T, FALSE, FALSE)>>,
      <<Stmt("DROP_OBJECT", "VIEW", ID_S_V, TRUE, FALSE)>>,
      <<Stmt("DROP_OBJECT", "TABLE", ID_S_T, FALSE, FALSE),
        Stmt("DROP_OBJECT", "VIEW", ID_S_V, TRUE, FALSE)>>,
      <<Stmt("DROP_OBJECT", "TABLE", ID_FOUR, FALSE, FALSE)>>,
      <<Stmt("DROP_OBJECT", "STREAM", ID_S_ST, FALSE, FALSE)>> }

TwiceFiles ==
    [name : {FN_TAGGED}, stmts : TwiceScripts]
    \cup [name : {FN_UNTAGGED}, stmts : UntaggedScripts]
    \cup [name : {FN_NOTES}, stmts : {<<>>}]

\* the contents of one folder: files of different names
FolderContents(n) ==
    {s \in SeqsUpTo(TwiceFiles, n) :
        \A i, j \in 1..Len(s) : i # j => s[i].name # s[j].name}

\* os.listdir(folder): the files of the folder in an arbitrary order
Listings(s) == {l \in [1..Len(s) -> Range(s)] : Range(l) = Range(s)}

TABLE_P_S_T == <<"TABLE", <<"P">>, <<"S">>, <<"T">>>>

DependentSeq ==
    << ObjectRef("VIEW", <<"P">>, <<"S">>, <<"V">>),
       ObjectRef("STREAM", <<"P">>, <<"S">>, <<"S", "T">>) >>

\* the states of the catalog: which of the dependents reference TABLE P.S.T,
\* which objects do not exist, whether the dependency function can be called
Catalogs ==
    [referencing : SUBSET Range(DependentSeq),
     missing : SUBSET {TABLE_P_S_T},
     usable : BOOLEAN,
     reachable : BOOLEAN]

Reverse(s) == [i \in 1..Len(s) |-> s[Len(s) + 1 - i]]

\* cur.execute(query); cur.fetchall() for one impacted object
execute(cat, key, reversed) ==
    IF ~cat.usable
    THEN [raised |-> TRUE,
          e |-> [kind |-> "ProgrammingError", text |-> "other", cause |-> "other"],
          rows |-> <<>>]
    ELSE IF key \in cat.missing
    THEN [raised |-> TRUE,
          e |-> [kind |-> "ProgrammingError", text |-> NOT_FOUND_TEXT, cause |-> "missing"],
          rows |-> <<>>]
    ELSE LET rows == IF key = TABLE_P_S_T
                     THEN SelectSeq(DependentSeq, LAMBDA d : d \in cat.referencing)
                     ELSE <<>>
         IN  [raised |-> FALSE, e |-> <<>>,
              rows |-> IF reversed THEN Reverse(rows) ELSE rows]

\* lines 75-109 over the listing of both folders
RECURSIVE scan_files(_, _, _, _)
scan_files(listing, i, impacted, db) ==
    IF i > Len(listing) THEN [impacted |-> impacted, failed |-> FALSE, bad |-> <<>>]
    ELSE IF ~IsSqlFile(listing[i].name) THEN scan_files(listing, i + 1, impacted, db)
    ELSE LET scan == ScanMatches(MatchesOf[listing[i]], 1, impacted, listing[i].name,
                                 UpperStr(db), DefaultSchemaOf(listing[i].name))
         IN  IF scan.failed THEN scan
             ELSE scan_files(listing, i + 1, scan.impacted, db)

\* lines 134-169 from the i-th impacted object on
RECURSIVE query_all(_, _, _, _, _)
query_all(impacted, i, deps, cat, reversed) ==
    IF i > Len(impacted) THEN [deps |-> deps, failed |-> FALSE]
    ELSE LET key == impacted[i].key
             r == execute(cat, key, reversed)
         IN  IF ~r.raised
             THEN query_all(impacted, i + 1,
                            deps \o [n \in 1..Len(r.rows) |-> DepDict(key, r.rows[n])],
                            cat, reversed)
             ELSE IF is_not_found(r.e)
             THEN query_all(impacted, i + 1, deps, cat, reversed)
             ELSE [deps |-> deps, failed |-> TRUE]

RunResult(status, kind, impacted, blocking) ==
    [status |-> status, kind |-> kind, impacted |-> impacted, blocking |-> blocking]

\* main() as a whole: what a run ends with
main(db, listing, cat, reversed) ==
    IF ~Truthy(db) THEN RunResult(1, "no_database", <<>>, <<>>)
    ELSE LET scan == scan_files(listing, 1, <<>>, db)
         IN  IF scan.failed THEN RunResult(1, "unqualified", scan.impacted, <<>>)
             ELSE IF scan.impacted = <<>> THEN RunResult(0, "no_destructive", <<>>, <<>>)
             ELSE IF ~cat.reachable THEN RunResult(1, "connect_failed", scan.impacted, <<>>)
             ELSE LET q == query_all(scan.impacted, 1, <<>>, cat, reversed)
                      truly == filter_same_run(q.deps, scan.impacted)
                  IN  IF q.failed
                      THEN RunResult(1, "database_error", scan.impacted, <<>>)
                      ELSE RunResult(decision(truly),
                                     IF truly # <<>> THEN "danger" ELSE "success",
                                     scan.impacted, truly)

GateIdle ==
    /\ pc = "idle"
    /\ target_db = None
    /\ dry_run = FALSE
    /\ folder = 1
    /\ nfiles = 0
    /\ impacted_objects = <<>>
    /\ conn_open = FALSE
    /\ qi = 1
    /\ queried = <<>>
    /\ blocking_dependencies = <<>>
    /\ truly_blocking_dependencies = <<>>
    /\ exit_status = -1
    /\ out = NoOutput
    /\ last_scan = NoScan
    /\ targeted = {}
    /\ failed_queries = {}
    /\ res_in = <<>>
    /\ res_out = <<>>

InitTwice ==
    /\ GateIdle
    /\ RollbackIdle
    /\ MoreIdle
    /\ PipelineIdle
    /\ CloneIdle
    /\ RestoreIdle
    /\ runs = <<>>
    /\ \E db \in {None, <<"p">>}, cat \in Catalogs :
        \E setup \in FolderContents(MaxFiles) :
            \E migrations \in FolderContents(MaxFiles - Len(setup)) :
                env = [db |-> db, catalog |-> cat, folders |-> <<setup, migrations>>]

\* one run of the gate
RunGate ==
    /\ env # <<>>
    /\ Len(runs) < 2
    /\ \E l1 \in Listings(env.folders[1]), l2 \in Listings(env.folders[2]),
          reversed \in BOOLEAN :
            runs' = Append(runs, main(env.db, l1 \o l2, env.catalog, reversed))
    /\ UNCHANGED <<env, gate_vars, res_in, res_out, pipeline_vars, clone_vars, restore_vars, rollback_vars, more_vars>>

NextTwice == RunGate

SpecTwice == InitTwice /\ [][NextTwice]_vars

-----------------------------------------------------------------------------
(* clone_tables.py: the backup clones taken for the changed scripts.       *)

ID_S_U == <<"s", ".", "u">>

\* the statements of the changed scripts
CloneStmts ==
    {Stmt("DROP_OBJECT", "TABLE", n, FALSE, FALSE) : n \in {ID_T, ID_S_T, ID_P_S_T, ID_QUOTED}}
    \cup { Stmt("DROP_OBJECT", "TABLE", ID_S_T, TRUE, FALSE),
           Stmt("TRUNCATE", "TABLE", ID_S_T, FALSE, TRUE),
           Stmt("TRUNCATE", "TABLE", ID_S_U, FALSE, FALSE),
           Stmt("DROP_COLUMN", "TABLE", ID_S_T, FALSE, FALSE),
           Stmt("ADD_COLUMN", "TABLE", ID_S_U, FALSE, FALSE),
           Stmt("DROP_OBJECT", "VIEW", ID_S_V, FALSE, FALSE) }

CloneScripts ==
    {<<>>} \cup {<<a>> : a \in CloneStmts}
    \cup { <<Stmt("DROP_OBJECT", "TABLE", ID_S_T, FALSE, FALSE),
             Stmt("TRUNCATE", "TABLE", ID_S_U, FALSE, FALSE)>>,
           <<Stmt("TRUNCATE", "TABLE", ID_S_T, FALSE, TRUE),
             Stmt("DROP_OBJECT", "TABLE", ID_T, FALSE, FALSE)>> }

\* a file of the diff: where its path lies and what it holds.  "schema" is a
\* .sql file under <root>/<entry>/ outside backup/, "backup" a .sql file under a
\* backup folder, "other" a file that is no .sql file or lies elsewhere
DiffFiles ==
    [where : {"schema"}, stmts : CloneScripts]
    \cup [where : {"backup", "other"},
          stmts : {<<Stmt("DROP_OBJECT", "TABLE", ID_S_T, FALSE, FALSE)>>}]

\* lines 62-77: the changed .sql files under the schema folders
changed_files(ds) == SelectSeq(ds, LAMBDA d : d.where = "schema")

\* the length of the longest prefix of w made of [0-9A-Za-z_]
RECURSIVE RunLen(_, _)
RunLen(w, i) ==
    IF i > Len(w) \/ ~IsWordChar(w[i]) THEN i - 1 ELSE RunLen(w, i + 1)

\* ALTER, TRUNCATE or DROP without \b: the word ends with the keyword
KwEnd(text, i, kw) ==
    /\ i >= 1 /\ i <= Len(text)
    /\ Len(text[i]) >= Len(kw)
    /\ UpperStr(SubSeq(text[i], Len(text[i]) - Len(kw) + 1, Len(text[i]))) = kw

\* (?:ALTER|TRUNCATE|DROP)\s+TABLE\s+([0-9A-Za-z_]+)\.([0-9A-Za-z_]+) tried at word i
pattern(text, i) ==
    IF ~(/\ \E kw \in {KW_ALTER, KW_TRUNCATE, KW_DROP} : KwEnd(text, i, kw)
         /\ KwAt(text, i + 1, KW_TABLE)
         /\ i + 2 <= Len(text))
    THEN [found |-> FALSE, sch |-> <<>>, tbl |-> <<>>]
    ELSE LET w == text[i + 2]
             n1 == RunLen(w, 1)
             rest == SubSeq(w, n1 + 2, Len(w))
             n2 == RunLen(rest, 1)
         IN  IF n1 >= 1 /\ n1 + 1 <= Len(w) /\ w[n1 + 1] = "." /\ n2 >= 1
             THEN [found |-> TRUE, sch |-> SubSeq(w, 1, n1), tbl |-> SubSeq(rest, 1, n2)]
             ELSE [found |-> FALSE, sch |-> <<>>, tbl |-> <<>>]

\* pattern.findall(content) from word i on, as the set of f"{sch}.{tbl}"
RECURSIVE findall(_, _)
findall(text, i) ==
    IF i > Len(text) THEN {}
    ELSE LET m == pattern(text, i)
         IN  IF m.found THEN {<<m.sch, m.tbl>>} \cup findall(text, i + 3)
             ELSE findall(text, i + 1)

\* lines 93-97
RECURSIVE collect_tables(_)
collect_tables(files) ==
    IF files = <<>> THEN {}
    ELSE findall(RenderAll(Head(files).stmts), 1) \cup collect_tables(Tail(files))

\* DATA_RETENTION_TIME_IN_DAYS of line 107
RETENTION_DAYS == 1

\* datetime.utcnow().strftime('%Y%m%d%H%M%S')
TS == <<"2", "0", "2", "5">>

\* f"{schema}.{table}_backup_{ts}"
backup_name(full_name) ==
    <<full_name[1], full_name[2] \o <<"_", "b", "a", "c", "k", "u", "p", "_">> \o TS>>

InitClone ==
    /\ GateIdle
    /\ RollbackIdle
    /\ MoreIdle
    /\ TwiceIdle
    /\ PipelineIdle
    /\ RestoreIdle
    /\ clone_pc = "start"
    /\ clone_env \in BOOLEAN
    /\ diffs \in SeqsUpTo(DiffFiles, MaxFiles)
    /\ tables_to_clone = {}
    /\ pending = {}
    /\ cloned = {}
    /\ clone_failed = {}
    /\ clone_exit = -1

CloneExit(status) == clone_pc' = "exit" /\ clone_exit' = status

\* lines 31-37: every variable must be set, or RuntimeError
CloneCheckEnv ==
    /\ clone_pc = "start"
    /\ IF clone_env THEN clone_pc' = "connect" /\ UNCHANGED clone_exit
       ELSE CloneExit(1)
    /\ UNCHANGED <<clone_env, diffs, tables_to_clone, pending, cloned, clone_failed>>
    /\ UNCHANGED <<gate_vars, res_in, res_out, twice_vars, pipeline_vars, restore_vars, rollback_vars, more_vars>>

\* lines 40-54: the connection is made, or connect raises
CloneConnect ==
    /\ clone_pc = "connect"
    /\ \/ clone_pc' = "collect" /\ UNCHANGED clone_exit
       \/ CloneExit(1)
    /\ UNCHANGED <<clone_env, diffs, tables_to_clone, pending, cloned, clone_failed>>
    /\ UNCHANGED <<gate_vars, res_in, res_out, twice_vars, pipeline_vars, restore_vars, rollback_vars, more_vars>>

\* lines 56-97: the changed files and the tables their statements name
CloneCollect ==
    /\ clone_pc = "collect"
    /\ IF changed_files(diffs) = <<>>
       THEN /\ CloneExit(0)
            /\ UNCHANGED <<tables_to_clone, pending>>
       ELSE /\ tables_to_clone' = collect_tables(changed_files(diffs))
            /\ pending' = collect_tables(changed_files(diffs))
            /\ clone_pc' = "clone"
            /\ UNCHANGED clone_exit
    /\ UNCHANGED <<clone_env, diffs, cloned, clone_failed>>
    /\ UNCHANGED <<gate_vars, res_in, res_out, twice_vars, pipeline_vars, restore_vars, rollback_vars, more_vars>>

\* lines 100-116: clone_table for the next table of the set.  Either statement
\* can raise; the exception is printed as a warning and the loop goes on.
CloneTable ==
    /\ clone_pc = "clone"
    /\ \E tbl \in pending :
        /\ pending' = pending \ {tbl}
        /\ \/ /\ cloned' = cloned \cup
                    {[source |-> tbl, backup |-> backup_name(tbl),
                      retention_set |-> TRUE, retention |-> RETENTION_DAYS]}
              /\ UNCHANGED clone_failed
           \/ /\ clone_failed' = clone_failed \cup {tbl}
              /\ UNCHANGED cloned
           \/ /\ cloned' = cloned \cup
                    {[source |-> tbl, backup |-> backup_name(tbl),
                      retention_set |-> FALSE, retention |-> 0]}
              /\ clone_failed' = clone_failed \cup {tbl}
    /\ UNCHANGED <<clone_pc, clone_env, diffs, tables_to_clone, clone_exit>>
    /\ UNCHANGED <<gate_vars, res_in, res_out, twice_vars, pipeline_vars, restore_vars, rollback_vars, more_vars>>

\* line 118: the loop is over, the script ends
CloneEnd ==
    /\ clone_pc = "clone"
    /\ pending = {}
    /\ CloneExit(0)
    /\ UNCHANGED <<clone_env, diffs, tables_to_clone, pending, cloned, clone_failed>>
    /\ UNCHANGED <<gate_vars, res_in, res_out, twice_vars, pipeline_vars, restore_vars, rollback_vars, more_vars>>

NextClone ==
    \/ CloneCheckEnv
    \/ CloneConnect
    \/ CloneCollect
    \/ CloneTable
    \/ CloneEnd

SpecClone == InitClone /\ [][NextClone]_vars

-----------------------------------------------------------------------------
(* rollback_time_travel.py: tables restored from their state at a          *)
(* timestamp through a backup table.                                       *)

\* tables named on one command line
MaxTables == 2

\* --tables values as they are typed
RawTables == {<<"t">>, <<"\"", "t", "\"">>, <<"U">>}

\* the tables of the schema
TableNames == {<<"T">>, <<"U">>}

\* str.strip(c)
RECURSIVE Strip(_, _)
Strip(s, c) ==
    IF s # <<>> /\ Head(s) = c THEN Strip(Tail(s), c)
    ELSE IF s # <<>> /\ s[Len(s)] = c THEN Strip(SubSeq(s, 1, Len(s) - 1), c)
    ELSE s

\* a table before any rollback: no backup table, its current data
Untouched == [backup |-> "none", data |-> "current"]

InitRestore ==
    /\ GateIdle
    /\ RollbackIdle
    /\ MoreIdle
    /\ TwiceIdle
    /\ PipelineIdle
    /\ CloneIdle
    /\ rt_pc = "start"
    /\ rt_env \in BOOLEAN
    /\ rt_args \in SeqsUpTo(RawTables, MaxTables)
    /\ rt_listing \in {<<>>, << <<"T">> >>, << <<"T">>, <<"U">> >>}
    /\ tables = <<>>
    /\ table_state = [n \in TableNames |-> Untouched]
    /\ raised = FALSE
    /\ rt_errors = {}
    /\ rt_exit = -1
    /\ attempts = <<>>

RestoreExit(status) == rt_pc' = "exit" /\ rt_exit' = status

\* lines 74-85 and get_snowflake_connection: the arguments are sanitized, the
\* variables checked (sys.exit(1)), the connection made (or connect raises)
RestoreStart ==
    /\ rt_pc = "start"
    /\ tables' = [i \in 1..Len(rt_args) |-> UpperStr(Strip(rt_args[i], "\""))]
    /\ IF ~rt_env THEN RestoreExit(1)
       ELSE \/ rt_pc' = "list" /\ UNCHANGED rt_exit
            \/ RestoreExit(1)
    /\ UNCHANGED <<rt_env, rt_args, rt_listing, table_state, raised, rt_errors, attempts>>
    /\ UNCHANGED <<gate_vars, res_in, res_out, twice_vars, pipeline_vars, clone_vars, rollback_vars, more_vars>>

\* lines 87-102: without --tables every base table of the schema is taken
RestoreList ==
    /\ rt_pc = "list"
    /\ \/ LET ts == IF tables = <<>> THEN rt_listing ELSE tables
          IN  /\ tables' = ts
              /\ IF ts = <<>> THEN RestoreExit(0)
                 ELSE rt_pc' = "create" /\ UNCHANGED rt_exit
       \/ /\ tables = <<>>
          /\ RestoreExit(1)
          /\ UNCHANGED tables
    /\ UNCHANGED <<rt_env, rt_args, rt_listing, table_state, raised, rt_errors, attempts>>
    /\ UNCHANGED <<gate_vars, res_in, res_out, twice_vars, pipeline_vars, clone_vars, rollback_vars, more_vars>>

\* lines 55-60: CREATE OR REPLACE TABLE <backup> AS SELECT ... AT (TIMESTAMP => ...)
RestoreCreateBackup ==
    /\ rt_pc = "create"
    /\ \/ /\ table_state' = [table_state EXCEPT ![Head(tables)].backup = "exists"]
          /\ rt_pc' = "truncate"
          /\ UNCHANGED raised
       \/ /\ raised' = TRUE
          /\ rt_pc' = "finally"
          /\ UNCHANGED table_state
    /\ UNCHANGED <<rt_env, rt_args, rt_listing, tables, rt_errors, rt_exit, attempts>>
    /\ UNCHANGED <<gate_vars, res_in, res_out, twice_vars, pipeline_vars, clone_vars, rollback_vars, more_vars>>

\* lines 62-63: TRUNCATE TABLE <table>
RestoreTruncate ==
    /\ rt_pc = "truncate"
    /\ \/ /\ table_state' = [table_state EXCEPT ![Head(tables)].data = "truncated"]
          /\ rt_pc' = "insert"
          /\ UNCHANGED raised
       \/ /\ raised' = TRUE
          /\ rt_pc' = "finally"
          /\ UNCHANGED table_state
    /\ UNCHANGED <<rt_env, rt_args, rt_listing, tables, rt_errors, rt_exit, attempts>>
    /\ UNCHANGED <<gate_vars, res_in, res_out, twice_vars, pipeline_vars, clone_vars, rollback_vars, more_vars>>

\* line 64: INSERT INTO <table> SELECT * FROM <backup>
RestoreInsert ==
    /\ rt_pc = "insert"
    /\ \/ /\ table_state' = [table_state EXCEPT ![Head(tables)].data = "restored"]
          /\ UNCHANGED raised
       \/ /\ raised' = TRUE
          /\ UNCHANGED table_state
    /\ rt_pc' = "finally"
    /\ UNCHANGED <<rt_env, rt_args, rt_listing, tables, rt_errors, rt_exit, attempts>>
    /\ UNCHANGED <<gate_vars, res_in, res_out, twice_vars, pipeline_vars, clone_vars, rollback_vars, more_vars>>

\* lines 66-68: finally: DROP TABLE IF EXISTS <backup>, whatever happened before
backup_after_finally(state, failed) ==
    IF state.backup = "exists" THEN "dropped" ELSE state.backup

\* the variant whose loop lets the exception of a table end the run
next_table_reraising(failed, rest) ==
    IF failed THEN [pc |-> "exit", exit |-> 1]
    ELSE [pc |-> IF rest = <<>> THEN "end" ELSE "create", exit |-> -1]

\* lines 104-109: the exception of a table is caught and printed, and the loop
\* goes on with the rest of the tables
next_table(failed, rest) ==
    [pc |-> IF rest = <<>> THEN "end" ELSE "create", exit |-> -1]

\* lines 66-70 and 104-109: the finally clause (its DROP may raise too), then
\* the except clause of main and the next table of the loop
RestoreFinally ==
    /\ rt_pc = "finally"
    /\ \E drop_ok \in BOOLEAN :
          LET failed == raised \/ ~drop_ok
              after == next_table(failed, Tail(tables))
          IN  /\ table_state' =
                    IF drop_ok
                    THEN [table_state EXCEPT ![Head(tables)].backup =
                             backup_after_finally(table_state[Head(tables)], raised)]
                    ELSE table_state
              /\ rt_errors' = IF failed THEN rt_errors \cup {Head(tables)} ELSE rt_errors
              /\ attempts' = Append(attempts, [table |-> Head(tables), failed |-> failed])
              /\ rt_pc' = after.pc
              /\ rt_exit' = after.exit
    /\ raised' = FALSE
    /\ tables' = Tail(tables)
    /\ UNCHANGED <<rt_env, rt_args, rt_listing>>
    /\ UNCHANGED <<gate_vars, res_in, res_out, twice_vars, pipeline_vars, clone_vars, rollback_vars, more_vars>>

\* lines 111-112: "Rollback process completed."
RestoreEnd ==
    /\ rt_pc = "end"
    /\ RestoreExit(0)
    /\ UNCHANGED <<rt_env, rt_args, rt_listing, tables, table_state, raised, rt_errors,
                   attempts>>
    /\ UNCHANGED <<gate_vars, res_in, res_out, twice_vars, pipeline_vars, clone_vars, rollback_vars, more_vars>>

NextRestore ==
    \/ RestoreStart
    \/ RestoreList
    \/ RestoreCreateBackup
    \/ RestoreTruncate
    \/ RestoreInsert
    \/ RestoreFinally
    \/ RestoreEnd

SpecRestore == InitRestore /\ [][NextRestore]_vars

-----------------------------------------------------------------------------
(* rollback_generator.py: the rollback statements written for the scripts. *)

KW_SET == <<"S", "E", "T">>
KW_DATA == <<"D", "A", "T", "A">>
KW_TYPE == <<"T", "Y", "P", "E">>
KW_RENAME == <<"R", "E", "N", "A", "M", "E">>
KW_TO == <<"T", "O">>
KW_CREATE == <<"C", "R", "E", "A", "T", "E">>
KW_OR == <<"O", "R">>
KW_REPLACE == <<"R", "E", "P", "L", "A", "C", "E">>
KW_SCHEMA == <<"S", "C", "H", "E", "M", "A">>
KW_NOT == <<"N", "O", "T">>
KW_AS == <<"A", "S">>
KW_VARCHAR == <<"V", "A", "R", "C", "H", "A", "R">>
KW_DATE == <<"D", "A", "T", "E">>

\* the elements of an expression, one per word of the text: a keyword, a whole
\* word (\S+), a type ([\w\(\), ]+ then ';'), a word up to its last ';' ((\S+);)
Kw(w) == [k |-> "kw", w |-> w]
Cap == [k |-> "cap", w |-> <<>>]
TypeThenSemi == [k |-> "type", w |-> <<>>]
WordThenSemi == [k |-> "semi", w |-> <<>>]

\* the class [\w\(\), ]
TypeChars == WordChars \cup {"(", ")", ",", " "}

\* the length of the longest prefix of w made of characters of the class
RECURSIVE RunIn(_, _, _)
RunIn(w, class, i) ==
    IF i > Len(w) \/ w[i] \notin class THEN i - 1 ELSE RunIn(w, class, i + 1)

\* the index of the last ';' of w, 0 when it has none
LastSemi(w) ==
    IF \E k \in 1..Len(w) : w[k] = ";"
    THEN CHOOSE k \in 1..Len(w) : w[k] = ";" /\ \A j \in (k + 1)..Len(w) : w[j] # ";"
    ELSE 0

ElemMatch(el, text, i, first) ==
    CASE el.k = "kw" -> IF first THEN KwEnd(text, i, el.w) ELSE KwAt(text, i, el.w)
      [] el.k = "cap" -> TRUE
      [] el.k = "type" ->
            LET n == RunIn(text[i], TypeChars, 1)
            IN  n >= 1 /\ n < Len(text[i]) /\ text[i][n + 1] = ";"
      [] el.k = "semi" -> LastSemi(text[i]) >= 2

ElemCapture(el, w) ==
    CASE el.k = "cap" -> w
      [] el.k = "type" -> SubSeq(w, 1, RunIn(w, TypeChars, 1))
      [] el.k = "semi" -> SubSeq(w, 1, LastSemi(w) - 1)
      [] el.k = "kw" -> <<>>

\* the expression p matches the words of text from the i-th on
SeqMatchAt(p, text, i) ==
    /\ i + Len(p) - 1 <= Len(text)
    /\ \A j \in 1..Len(p) : ElemMatch(p[j], text, i + j - 1, j = 1)

\* the groups of the match at word i
Groups(p, text, i) ==
    LET idx == SelectSeq([j \in 1..Len(p) |-> j], LAMBDA j : p[j].k # "kw")
    IN  [n \in 1..Len(idx) |-> ElemCapture(p[idx[n]], text[i + idx[n] - 1])]

\* re.findall(p, sql, re.IGNORECASE) from word i on: the groups of every match
RECURSIVE re_findall(_, _, _)
re_findall(p, text, i) ==
    IF i > Len(text) THEN <<>>
    ELSE IF SeqMatchAt(p, text, i)
         THEN <<Groups(p, text, i)>> \o re_findall(p, text, i + Len(p))
         ELSE re_findall(p, text, i + 1)

\* line 34
RE_ADD_COLUMN == <<Kw(KW_ALTER), Kw(KW_TABLE), Cap, Kw(KW_ADD), Kw(KW_COLUMN), Cap>>

\* line 38
RE_DROP_COLUMN ==
    <<Kw(KW_ALTER), Kw(KW_TABLE), Cap, Kw(KW_DROP), Kw(KW_COLUMN), Kw(KW_IF),
      Kw(KW_EXISTS), Cap>>

\* line 44
RE_ALTER_TYPE ==
    <<Kw(KW_ALTER), Kw(KW_TABLE), Cap, Kw(KW_ALTER), Kw(KW_COLUMN), Cap, Kw(KW_SET),
      Kw(KW_DATA), Kw(KW_TYPE), TypeThenSemi>>

\* line 52
RE_RENAME_COLUMN ==
    <<Kw(KW_ALTER), Kw(KW_TABLE), Cap, Kw(KW_RENAME), Kw(KW_COLUMN), Cap, Kw(KW_TO),
      WordThenSemi>>

\* line 68
RE_CREATE_SCHEMA ==
    <<Kw(KW_CREATE), Kw(KW_SCHEMA), Kw(KW_IF), Kw(KW_NOT), Kw(KW_EXISTS), Cap>>

\* line 59: the alternatives (TABLE|VIEW|FUNCTION|PROCEDURE|SEQUENCE|STAGE|FILE FORMAT)
\* in their order, each as the words it is made of
REPLACEABLE ==
    << <<KW_TABLE>>, <<KW_VIEW>>, <<KW_FUNCTION>>, <<KW_PROCEDURE>>, <<KW_SEQUENCE>>,
       <<KW_STAGE>>, <<KW_FILE, KW_FORMAT>> >>

RE_CREATE_OR_REPLACE(obj) ==
    <<Kw(KW_CREATE), Kw(KW_OR), Kw(KW_REPLACE)>>
    \o [n \in 1..Len(obj) |-> Kw(obj[n])] \o <<Cap>>

\* lines 58-61: findall of the expression of line 59 from word i on, as
\* <<obj, name>> with obj the words of the object kind as written
RECURSIVE create_or_replace_findall(_, _)
create_or_replace_findall(text, i) ==
    IF i > Len(text) THEN <<>>
    ELSE IF \E a \in 1..Len(REPLACEABLE) : SeqMatchAt(RE_CREATE_OR_REPLACE(REPLACEABLE[a]), text, i)
    THEN LET a == CHOOSE a \in 1..Len(REPLACEABLE) :
                    /\ SeqMatchAt(RE_CREATE_OR_REPLACE(REPLACEABLE[a]), text, i)
                    /\ \A b \in 1..(a - 1) :
                            ~SeqMatchAt(RE_CREATE_OR_REPLACE(REPLACEABLE[b]), text, i)
             n == Len(REPLACEABLE[a])
         IN  << <<SubSeq(text, i + 3, i + 2 + n), text[i + 3 + n]>> >>
             \o create_or_replace_findall(text, i + 4 + n)
    ELSE create_or_replace_findall(text, i + 1)

PLACEHOLDER ==
    <<"<", "O", "R", "I", "G", "I", "N", "A", "L", "_", "T", "Y", "P", "E", ">">>

\* str(x) inside an f-string
Str(x) == IF x = None THEN <<"N", "o", "n", "e">> ELSE x

\* truthiness of an Optional[int] given by its digits
IntTruthy(x) == x # None /\ x # <<"0">>

\* the rows INFORMATION_SCHEMA.COLUMNS can hold for a column:
\* DATA_TYPE, CHARACTER_MAXIMUM_LENGTH, NUMERIC_PRECISION, NUMERIC_SCALE
TypeRow(dt, char_len, prec, scale) == <<dt, char_len, prec, scale>>

ROW_NUMBER == TypeRow(KW_NUMBER, None, <<"1", "0">>, <<"2">>)
ROW_VARCHAR == TypeRow(KW_VARCHAR, <<"2", "0">>, None, None)
ROW_DATE == TypeRow(KW_DATE, None, None, None)

TypeRows == {ROW_NUMBER, ROW_VARCHAR, ROW_DATE}

\* lines 24-29: the type text of a row
format_type(row) ==
    LET dt == row[1]
        char_len == row[2]
        prec == row[3]
        scale == row[4]
    IN  IF UpperStr(dt) \in {KW_VARCHAR, <<"C", "H", "A", "R">>, <<"T", "E", "X", "T">>}
           /\ IntTruthy(char_len)
        THEN dt \o <<"(">> \o Str(char_len) \o <<")">>
        ELSE IF UpperStr(dt) \in {KW_NUMBER, <<"D", "E", "C", "I", "M", "A", "L">>,
                                  <<"N", "U", "M", "E", "R", "I", "C">>}
                /\ prec # None
        THEN dt \o <<"(">> \o Str(prec) \o <<",">> \o Str(scale) \o <<")">>
        ELSE dt

\* the catalog holds the columns of one table, S.T: a function from column names
\* to rows.  cur.fetchone() for TABLE_SCHEMA, TABLE_NAME and COLUMN_NAME equal to
\* the arguments: the row, or None
fetchone(cat, schema, table, column) ==
    IF schema = <<"S">> /\ table = <<"T">> /\ column \in DOMAIN cat THEN cat[column]
    ELSE None

\* the variant that falls back to a type of its own when there is no row
get_column_type_guessing(cat, full_table, column) ==
    LET k == FirstIn(full_table, {"."}, 1)
        row == fetchone(cat, SubSeq(full_table, 1, k - 1),
                        SubSeq(full_table, k + 1, Len(full_table)), column)
    IN  IF k > Len(full_table) THEN [raised |-> TRUE, row |-> None, type |-> None]
        ELSE IF row = None THEN [raised |-> FALSE, row |-> None, type |-> KW_VARCHAR]
        ELSE [raised |-> FALSE, row |-> row, type |-> format_type(row)]

\* lines 8-29: full_table.split('.', 1) raises ValueError without a '.'
get_column_type(cat, full_table, column) ==
    LET k == FirstIn(full_table, {"."}, 1)
        row == fetchone(cat, SubSeq(full_table, 1, k - 1),
                        SubSeq(full_table, k + 1, Len(full_table)), column)
    IN  IF k > Len(full_table) THEN [raised |-> TRUE, row |-> None, type |-> None]
        ELSE IF row = None THEN [raised |-> FALSE, row |-> None, type |-> None]
        ELSE [raised |-> FALSE, row |-> row, type |-> format_type(row)]

\* the outcome of a loop of generate_rollback: the lines appended, the lookups
\* made (what was asked and the row fetched), and whether a lookup raised
Generated(failed, lines, asked) == [raised |-> failed, lines |-> lines, lookups |-> asked]

Lookup(tbl, col, row) == [tbl |-> tbl, col |-> col, row |-> row]

\* orig_type = get_column_type(conn, tbl, col) or "<ORIGINAL_TYPE>"
orig_type(got) == IF got.type = None THEN PLACEHOLDER ELSE got.type

\* the variant that names the table where the column belongs
drop_column_line_of_table(g) ==
    <<KW_ALTER, KW_TABLE, g[1], KW_DROP, KW_COLUMN, g[1] \o <<";">> >>

\* line 35
drop_column_line(g) ==
    <<KW_ALTER, KW_TABLE, g[1], KW_DROP, KW_COLUMN, g[2] \o <<";">> >>

\* line 40
add_column_line(g, type) ==
    <<KW_ALTER, KW_TABLE, g[1], KW_ADD, KW_COLUMN, g[2], type \o <<";">> >>

\* line 48
set_data_type_line(g, type) ==
    <<KW_ALTER, KW_TABLE, g[1], KW_ALTER, KW_COLUMN, g[2], KW_SET, KW_DATA, KW_TYPE,
      type \o <<";">> >>

\* line 55
rename_column_line(g) ==
    <<KW_ALTER, KW_TABLE, g[1], KW_RENAME, KW_COLUMN, g[3], KW_TO, g[2] \o <<";">> >>

\* line 62
drop_object_line(g) ==
    <<KW_DROP>> \o [n \in 1..Len(g[1]) |-> UpperStr(g[1][n])]
    \o <<KW_IF, KW_EXISTS, g[2] \o <<";">> >>

\* line 70
drop_schema_line(g) == <<KW_DROP, KW_SCHEMA, KW_IF, KW_EXISTS, g[1] \o <<";">> >>

\* lines 38-40 (rule = "drop") and 43-48 (rule = "type"): one lookup and one line
\* per match, from the k-th match on; a lookup that raises ends the loop.  The
\* query raises when the connection fails it (query_ok = FALSE)
RECURSIVE lookup_loop(_, _, _, _, _)

\* the line of match g once its type is known, before those of the matches after it
lookup_line(rule, g, got, rest) ==
    Generated(rest.raised,
              <<IF rule = "drop" THEN add_column_line(g, orig_type(got))
                ELSE set_data_type_line(g, orig_type(got))>> \o rest.lines,
              <<Lookup(g[1], g[2], got.row)>> \o rest.lookups)

lookup_step(rule, matches, k, cat, query_ok, got) ==
    IF got.raised \/ ~query_ok THEN Generated(TRUE, <<>>, <<>>)
    ELSE lookup_line(rule, matches[k], got, lookup_loop(rule, matches, k + 1, cat, query_ok))

lookup_loop(rule, matches, k, cat, query_ok) ==
    IF k > Len(matches) THEN Generated(FALSE, <<>>, <<>>)
    ELSE lookup_step(rule, matches, k, cat, query_ok,
                     get_column_type(cat, matches[k][1], matches[k][2]))

\* s has sub as a substring
Contains(s, sub) ==
    \E i \in 1..(Len(s) - Len(sub) + 1) : SubSeq(s, i, i + Len(sub) - 1) = sub

FULL_SETUP_SQL ==
    <<"f", "u", "l", "l", "_", "s", "e", "t", "u", "p", ".", "s", "q", "l">>

\* The scripts of setup/ and migrations/.  A script is one statement, kept as
\* what it does (op, the table and column it names, its argument) and how it
\* is written: with IF [NOT] EXISTS or not (ifx), in lower case or not (lower),
\* with the ';' after a blank or not (spaced).
Script(op, tbl, col, arg, ifx, lower, spaced) ==
    [op |-> op, tbl |-> tbl, col |-> col, arg |-> arg, ifx |-> ifx, lower |-> lower,
     spaced |-> spaced]

ROW_VARCHAR_50 == TypeRow(KW_VARCHAR, <<"5", "0">>, None, None)

RbStmts ==
    { Script("ADD_COLUMN", <<"S", ".", "T">>, <<"D">>, ROW_NUMBER, FALSE, FALSE, FALSE),
      Script("ADD_COLUMN", <<"S", ".", "T">>, <<"D">>, ROW_NUMBER, FALSE, TRUE, FALSE),
      Script("ADD_COLUMN", <<"S", ".", "T">>, <<"D">>, ROW_NUMBER, TRUE, FALSE, FALSE),
      Script("DROP_COLUMN", <<"S", ".", "T">>, <<"C">>, None, TRUE, FALSE, TRUE),
      Script("DROP_COLUMN", <<"S", ".", "T">>, <<"C">>, None, TRUE, FALSE, FALSE),
      Script("DROP_COLUMN", <<"S", ".", "T">>, <<"C">>, None, FALSE, FALSE, TRUE),
      Script("DROP_COLUMN", <<"T">>, <<"C">>, None, TRUE, FALSE, TRUE),
      Script("ALTER_TYPE", <<"S", ".", "T">>, <<"C">>, ROW_VARCHAR_50, FALSE, FALSE, FALSE),
      Script("ALTER_TYPE", <<"S", ".", "T">>, <<"C">>, ROW_VARCHAR_50, FALSE, TRUE, FALSE),
      Script("RENAME_COLUMN", <<"S", ".", "T">>, <<"C">>, <<"E">>, FALSE, FALSE, FALSE),
      Script("CREATE_OR_REPLACE", <<"S", ".", "V">>, None, <<KW_VIEW>>, FALSE, FALSE, TRUE),
      Script("CREATE_OR_REPLACE", <<"S", ".", "F">>, None, <<KW_FILE, KW_FORMAT>>,
           FALSE, FALSE, FALSE),
      Script("FULL_SETUP", <<"S">>, None, None, TRUE, FALSE, FALSE) }

\* a word and the ';' that ends the statement
Ended(w, spaced) == IF spaced THEN <<w, <<";">> >> ELSE <<w \o <<";">> >>

\* the text of a script, as its words
sql_text(st) ==
    LET words ==
          CASE st.op = "ADD_COLUMN" ->
                  <<KW_ALTER, KW_TABLE, st.tbl, KW_ADD, KW_COLUMN>>
                  \o (IF st.ifx THEN <<KW_IF, KW_NOT, KW_EXISTS>> ELSE <<>>)
                  \o <<st.col>> \o Ended(format_type(st.arg), st.spaced)
            [] st.op = "DROP_COLUMN" ->
                  <<KW_ALTER, KW_TABLE, st.tbl, KW_DROP, KW_COLUMN>>
                  \o (IF st.ifx THEN <<KW_IF, KW_EXISTS>> ELSE <<>>)
                  \o Ended(st.col, st.spaced)
            [] st.op = "ALTER_TYPE" ->
                  <<KW_ALTER, KW_TABLE, st.tbl, KW_ALTER, KW_COLUMN, st.col, KW_SET,
                    KW_DATA, KW_TYPE>> \o Ended(format_type(st.arg), st.spaced)
            [] st.op = "RENAME_COLUMN" ->
                  <<KW_ALTER, KW_TABLE, st.tbl, KW_RENAME, KW_COLUMN, st.col, KW_TO>>
                  \o Ended(st.arg, st.spaced)
            [] st.op = "CREATE_OR_REPLACE" ->
                  <<KW_CREATE, KW_OR, KW_REPLACE>> \o st.arg \o Ended(st.tbl, st.spaced)
            [] st.op = "FULL_SETUP" ->
                  << <<"-", "-">>, FULL_SETUP_SQL, KW_CREATE, KW_SCHEMA, KW_IF, KW_NOT,
                     KW_EXISTS>> \o Ended(st.tbl, st.spaced)
    IN  IF st.lower THEN [n \in 1..Len(words) |-> LowerStr(words[n])] ELSE words

\* the text of every script, tabulated
TextOf == [sc \in RbStmts |-> sql_text(sc)] @@ <<>>

\* what the expressions of lines 34-68 find in the text of every script, and the
\* test of line 65 on it, tabulated
FoundIn ==
    [sql \in {TextOf[sc] : sc \in RbStmts} |->
        [added |-> re_findall(RE_ADD_COLUMN, sql, 1),
         dropped |-> re_findall(RE_DROP_COLUMN, sql, 1),
         retyped |-> re_findall(RE_ALTER_TYPE, sql, 1),
         renamed |-> re_findall(RE_RENAME_COLUMN, sql, 1),
         replaced |-> create_or_replace_findall(sql, 1),
         schema |-> re_findall(RE_CREATE_SCHEMA, sql, 1),
         full_setup |-> \E n \in 1..Len(sql) : Contains(LowerStr(sql[n]), FULL_SETUP_SQL)]]
    @@ <<>>

\* lines 31-72, over the words of sql
\* lines 66-70: the schema of a full_setup file of setup/
teardown(found, folder_type) ==
    IF folder_type = "setup" /\ found.full_setup /\ found.schema # <<>>
    THEN <<drop_schema_line(found.schema[1])>>
    ELSE <<>>

\* lines 32-72 on the matches of the six expressions and the outcomes of the
\* two loops that look types up
rollback_lines(found, folder_type, dropped, retyped) ==
    IF dropped.raised THEN Generated(TRUE, <<>>, dropped.lookups)
    ELSE IF retyped.raised THEN Generated(TRUE, <<>>, dropped.lookups \o retyped.lookups)
    ELSE Generated(FALSE,
             [n \in 1..Len(found.added) |-> drop_column_line(found.added[n])]
             \o dropped.lines \o retyped.lines
             \o [n \in 1..Len(found.renamed) |-> rename_column_line(found.renamed[n])]
             \o [n \in 1..Len(found.replaced) |-> drop_object_line(found.replaced[n])]
             \o teardown(found, folder_type),
             dropped.lookups \o retyped.lookups)

rollback_of(found, folder_type, cat, query_ok) ==
    rollback_lines(found, folder_type,
                   lookup_loop("drop", found.dropped, 1, cat, query_ok),
                   lookup_loop("type", found.retyped, 1, cat, query_ok))

generate_rollback(sql, folder_type, cat, query_ok) ==
    rollback_of(FoundIn[sql], folder_type, cat, query_ok)

\* The catalog the lookups read.  pre_image is the row of column C of table S.T
\* before any script of the folders was applied (None: no such column); the
\* first `applied` scripts, in the order of the folders, have already been
\* applied to the database when the generator runs.
Catalog(pre) == IF pre = None THEN <<>> ELSE (<<"C">> :> pre)

\* the catalog after a script is applied; the database resolves the unquoted
\* names of a script in upper case, and a table name without a schema in the
\* schema of the session, S
apply_script(cat, st) ==
    CASE st.op = "ADD_COLUMN" ->
            IF st.col \in DOMAIN cat THEN cat ELSE cat @@ (st.col :> st.arg)
      [] st.op = "DROP_COLUMN" -> [c \in DOMAIN cat \ {st.col} |-> cat[c]]
      [] st.op = "ALTER_TYPE" ->
            IF st.col \in DOMAIN cat THEN [cat EXCEPT ![st.col] = st.arg] ELSE cat
      [] st.op = "RENAME_COLUMN" ->
            IF st.col \in DOMAIN cat /\ st.arg \notin DOMAIN cat
            THEN [c \in (DOMAIN cat \ {st.col}) \cup {st.arg} |->
                    IF c = st.arg THEN cat[st.col] ELSE cat[c]]
            ELSE cat
      [] OTHER -> cat

RECURSIVE apply_scripts(_, _, _, _)
apply_scripts(cat, files, k, n) ==
    IF k > n THEN cat
    ELSE apply_scripts(apply_script(cat, files[k].script), files, k + 1, n)

live_catalog == apply_scripts(Catalog(pre_image), rb_files, 1, applied)

\* lines 102-104: the files of setup/, then those of migrations/, each folder
\* in the order of the names
RbFile(sub, script) == [sub |-> sub, script |-> script]

SetupFirst(fs) ==
    \A a, b \in 1..Len(fs) : a < b /\ fs[b].sub = "setup" => fs[a].sub = "setup"

RbFileSeqs ==
    UNION { {fs \in [1..n -> {RbFile(sub, sc) : sub \in {"setup", "migrations"}, sc \in RbStmts}] :
                SetupFirst(fs)} : n \in 0..MaxFiles }

PreImages == TypeRows \cup {None}

InitRollback ==
    /\ GateIdle
    /\ TwiceIdle
    /\ PipelineIdle
    /\ CloneIdle
    /\ RestoreIdle
    /\ MoreIdle
    /\ rb_pc = "start"
    /\ rb_files \in RbFileSeqs
    /\ rb_i = 1
    /\ pre_image \in PreImages
    /\ applied \in 0..Len(rb_files)
    /\ artifacts = <<>>
    /\ lookups = <<>>
    /\ rb_exit = -1

RbOthers ==
    <<gate_vars, res_in, res_out, twice_vars, pipeline_vars, clone_vars, restore_vars,
      more_vars>>

\* lines 75-100: a missing argument ends the run with status 2 (argparse); an
\* exception of mkdir or connect ends it with status 1
RbStart ==
    /\ rb_pc = "start"
    /\ \E outcome \in {"ok", "usage", "raised"} :
          IF outcome = "ok"
          THEN rb_pc' = "files" /\ rb_exit' = rb_exit
          ELSE rb_pc' = "exit" /\ rb_exit' = (IF outcome = "usage" THEN 2 ELSE 1)
    /\ UNCHANGED <<rb_files, rb_i, pre_image, applied, artifacts, lookups, RbOthers>>

\* lines 104-115 for the next file: an exception of a lookup is not caught and
\* ends the run with status 1 before anything is written for the file
RbGenerate ==
    /\ rb_pc = "files"
    /\ rb_i <= Len(rb_files)
    /\ \E query_ok \in BOOLEAN :
       \E rollback_stmts \in {generate_rollback(TextOf[rb_files[rb_i].script],
                                                rb_files[rb_i].sub, live_catalog, query_ok)} :
              /\ lookups' = lookups \o
                    [n \in 1..Len(rollback_stmts.lookups) |->
                        [file |-> rb_i, tbl |-> rollback_stmts.lookups[n].tbl,
                         col |-> rollback_stmts.lookups[n].col,
                         row |-> rollback_stmts.lookups[n].row]]
              /\ IF rollback_stmts.raised
                 THEN /\ rb_pc' = "exit"
                      /\ rb_exit' = 1
                      /\ UNCHANGED <<rb_i, artifacts>>
                 ELSE /\ artifacts' =
                            IF rollback_stmts.lines # <<>>
                            THEN Append(artifacts, [file |-> rb_i, sub |-> rb_files[rb_i].sub,
                                                    lines |-> rollback_stmts.lines])
                            ELSE artifacts
                      /\ rb_i' = rb_i + 1
                      /\ UNCHANGED <<rb_pc, rb_exit>>
    /\ UNCHANGED <<rb_files, pre_image, applied, RbOthers>>

\* line 117, and the end of the script
RbEnd ==
    /\ rb_pc = "files"
    /\ rb_i > Len(rb_files)
    /\ rb_pc' = "exit"
    /\ rb_exit' = 0
    /\ UNCHANGED <<rb_files, rb_i, pre_image, applied, artifacts, lookups, RbOthers>>

NextRollback == RbStart \/ RbGenerate \/ RbEnd

SpecRollback == InitRollback /\ [][NextRollback]_vars

-----------------------------------------------------------------------------
(* rollback.py: the tables of the latest pull request are put back to the  *)
(* time of its merge.                                                      *)

\* files of one pull request
MaxPrFiles == 2

KW_INSERT == <<"I", "N", "S", "E", "R", "T">>

\* one entry of the files of a pull request; content is the text of the file on
\* the branch, as GitHub would return it
PrFile(path, status, content) == [filename |-> path, status |-> status, content |-> content]

SQL_CREATE_T == <<KW_CREATE, KW_TABLE, <<"s", ".", "t">>, <<"(">>, <<"a">>, KW_NUMBER, <<")", ";">> >>
SQL_ALTER_T == <<LowerStr(KW_ALTER), LowerStr(KW_TABLE), <<"t">>, KW_ADD, KW_COLUMN, <<"c">>, KW_NUMBER \o <<";">> >>
SQL_REPLACE_V == <<KW_CREATE, KW_OR, KW_REPLACE, KW_VIEW, <<"s", ".", "v">>, KW_AS, KW_SELECT>>
SQL_CREATE_U == <<KW_CREATE, KW_OR, KW_REPLACE, KW_TABLE, <<"D", ".", "S", ".", "U", "(">>, <<"a">>, KW_NUMBER \o <<")", ";">> >>
SQL_SELECT == <<KW_SELECT, <<"1", ";">> >>

PrFileSet ==
    { PrFile(<<"snowflake", <<"S">>, "a.sql">>, "modified", SQL_CREATE_T),
      PrFile(<<"snowflake", <<"S">>, "b.sql">>, "added", SQL_ALTER_T),
      PrFile(<<"snowflake", <<"S">>, "c.sql">>, "removed", SQL_CREATE_T),
      PrFile(<<"snowflake", <<"S">>, "d.sql">>, "modified", SQL_REPLACE_V),
      PrFile(<<"snowflake", "e.sql">>, "added", SQL_ALTER_T),
      PrFile(<<"docs", "f.sql">>, "modified", SQL_CREATE_T),
      PrFile(<<"snowflake", <<"S">>, "g.sql">>, "renamed", SQL_CREATE_U),
      PrFile(<<"snowflake", <<"S">>, "h.sql">>, "modified", SQL_SELECT) }

\* [\w]+ at the start of word w from character i on: the index after its end
RECURSIVE WordRun(_, _)
WordRun(w, i) == IF i <= Len(w) /\ IsWordChar(w[i]) THEN WordRun(w, i + 1) ELSE i

\* ((?:[\w]+\.){0,2}[\w]+)\b at the start of word w, split at its dots: the
\* longest run of one to three names
RECURSIVE NameParts(_, _, _)
NameParts(w, i, room) ==
    LET e == WordRun(w, i)
    IN  IF e = i \/ room = 0 THEN <<>>
        ELSE LET more == IF e <= Len(w) /\ w[e] = "." THEN NameParts(w, e + 1, room - 1)
                         ELSE <<>>
             IN  <<SubSeq(w, i, e - 1)>> \o more

\* the expression of lines 73-76 at word i: where the name is, 0 without a match
MetaNameAt(text, i) ==
    IF ~(KwStart(text, i, KW_CREATE) \/ KwStart(text, i, KW_ALTER) \/ KwStart(text, i, KW_INSERT))
    THEN 0
    ELSE LET j == IF KwAt(text, i + 1, KW_OR) /\ KwAt(text, i + 2, KW_REPLACE)
                  THEN i + 3 ELSE i + 1
         IN  IF /\ KwAt(text, j, KW_TABLE) \/ KwAt(text, j, KW_VIEW)
                /\ j + 1 <= Len(text)
                /\ NameParts(text[j + 1], 1, 3) # <<>>
             THEN j + 1 ELSE 0

\* meta.get(...) of every key on the empty dictionary
NoMeta == [database |-> None, schema |-> None, object_type |-> None, object_name |-> None]

\* lines 72-88
parse_sql_metadata(sql) ==
    LET text == IF sql = None THEN <<>> ELSE sql
        hits == {i \in 1..Len(text) : MetaNameAt(text, i) # 0}
    IN  IF hits = {} THEN NoMeta
        ELSE LET i == CHOOSE h \in hits : \A g \in hits : h <= g
                 n == MetaNameAt(text, i)
                 parts == NameParts(text[n], 1, 3)
             IN  [database |-> IF Len(parts) = 3 THEN parts[1] ELSE None,
                  schema |-> IF Len(parts) = 3 THEN parts[2]
                             ELSE IF Len(parts) = 2 THEN parts[1] ELSE None,
                  object_type |-> UpperStr(text[n - 1]),
                  object_name |-> parts[Len(parts)]]

\* lines 90-108
RECURSIVE enrich_pr_files(_)
enrich_pr_files(files) ==
    IF files = <<>> THEN <<>>
    ELSE LET f == Head(files)
             path == f.filename
             default_schema == IF Len(path) > 2 THEN path[2] ELSE None
             content == IF f.status = "removed" THEN None ELSE f.content
             meta == parse_sql_metadata(content)
             obj == [database |-> meta.database,
                     schema |-> IF Truthy(meta.schema) THEN meta.schema ELSE default_schema,
                     object_type |-> meta.object_type,
                     object_name |-> meta.object_name,
                     change_type |-> f.status]
         IN  (IF path[1] # "snowflake" THEN <<>> ELSE <<obj>>) \o enrich_pr_files(Tail(files))

\* a table of schema S: the stored names of its columns now and at the time of
\* the merge, which rows it holds, and the clones made of it
PrTable(columns, old) == [columns |-> columns, old |-> old, data |-> "current", clones |-> {}]

\* the columns of table T now and at the time of the merge
ColumnCases ==
    { PrTable({<<"A">>, <<"B">>}, {<<"A">>, <<"B">>}),
      PrTable({<<"A">>, <<"B">>, <<"C">>}, {<<"A">>, <<"B">>}),
      PrTable({<<"A">>, <<"B">>}, {<<"A">>, <<"B">>, <<"C">>}),
      PrTable({<<"A">>, <<"a">>}, {<<"A">>}),
      PrTable({<<"A">>, <<"b">>}, {<<"A">>}) }

\* lines 138-140: the names of SHOW COLUMNS, upper-cased
get_column_names(columns) == {UpperStr(c) : c \in columns}

\* what a function leaves behind: the table, the DROP COLUMN statements it
\* executed, and whether it raised
Left(t, drops, raised_) == [t |-> t, issued |-> drops, raised |-> raised_]

\* lines 143-151: CREATE TABLE <backup> CLONE <table> AT (TIMESTAMP => ...)
clone_table_at_point(t, tag, ok) ==
    IF ok THEN Left([t EXCEPT !.clones = @ \cup {tag}], {}, FALSE)
    ELSE Left(t, {}, TRUE)

\* lines 154-160: INSERT OVERWRITE INTO <table> SELECT * FROM <table> AT (...)
rollback_data_inplace(t, ok) ==
    IF ok THEN Left([t EXCEPT !.data = "snapshot"], {}, FALSE)
    ELSE Left(t, {}, TRUE)

\* lines 163-173: the statement names the column without quotes, so it drops
\* the column stored under that upper-case name, when there is one
rollback_added_columns(t, clone_ok, show_ok, drop_ok) ==
    LET backup == clone_table_at_point(t, "schema_rollback", clone_ok)
        current == get_column_names(backup.t.columns)
        old == get_column_names(backup.t.old)
        drops == {[column |-> col, ok |-> col \in backup.t.columns /\ col \in drop_ok] :
                     col \in current \ old}
        gone == {d.column : d \in {x \in drops : x.ok}}
    IN  IF backup.raised THEN backup
        ELSE IF ~show_ok THEN Left(backup.t, {}, TRUE)
        ELSE Left([backup.t EXCEPT !.columns = @ \ gone], drops, FALSE)

\* the variant that puts the missing columns back
rollback_dropped_columns_restoring(t, ok) ==
    LET backup == clone_table_at_point(t, "recover", ok)
    IN  IF backup.raised THEN backup
        ELSE Left([backup.t EXCEPT !.columns = @ \cup backup.t.old], {}, FALSE)

\* lines 176-178
rollback_dropped_columns(t, ok) ==
    clone_table_at_point(t, "recover", ok)

\* the statements of one pass of the loop, each of which may raise
Outcomes ==
    [pre : BOOLEAN, clone : BOOLEAN, show : BOOLEAN, overwrite : BOOLEAN,
     drop_ok : SUBSET {<<"B">>, <<"C">>}]

\* lines 213-221: the clone 'pre', then the function of the change type
process_object(t, ch, o) ==
    LET pre == clone_table_at_point(t, "pre", o.pre)
    IN  IF pre.raised THEN pre
        ELSE IF ch \in {"modified", "changed", "updated"}
             THEN rollback_data_inplace(pre.t, o.overwrite)
        ELSE IF ch = "added"
             THEN rollback_added_columns(pre.t, o.clone, o.show, o.drop_ok)
        ELSE IF ch = "removed"
             THEN rollback_dropped_columns(pre.t, o.clone)
        ELSE pre

\* line 209: the objects the loop does not skip
is_table(o) ==
    /\ Truthy(o.schema)
    /\ Truthy(o.object_name)
    /\ (IF o.object_type = None THEN <<>> ELSE UpperStr(o.object_type)) = KW_TABLE

InitPr ==
    /\ GateIdle
    /\ TwiceIdle
    /\ PipelineIdle
    /\ CloneIdle
    /\ RestoreIdle
    /\ RollbackIdle
    /\ MirrorIdle
    /\ LogicIdle
    /\ pr_pc = "start"
    /\ pr_files \in SeqsUpTo(PrFileSet, MaxPrFiles)
    /\ objs = <<>>
    /\ pr_i = 1
    /\ \E c \in ColumnCases :
          pr_table = [n \in TableNames |->
                         IF n = <<"T">> THEN c ELSE PrTable({<<"A">>}, {<<"A">>})]
    /\ issued = {}
    /\ pr_exit = -1

PrOthers ==
    <<gate_vars, res_in, res_out, twice_vars, pipeline_vars, clone_vars, restore_vars,
      rollback_vars, mirror_vars, logic_vars>>

PrExit(status) == pr_pc' = "exit" /\ pr_exit' = status

\* lines 189-201: the pull request is read (any request may raise), the run
\* ends when it names no object, the connection is made (or raises)
PrStart ==
    /\ pr_pc = "start"
    /\ \/ /\ objs' = enrich_pr_files(pr_files)
          /\ IF objs' = <<>> THEN PrExit(0)
             ELSE \/ pr_pc' = "loop" /\ UNCHANGED pr_exit
                  \/ PrExit(1)
       \/ /\ PrExit(1)
          /\ UNCHANGED objs
    /\ UNCHANGED <<pr_files, pr_i, pr_table, issued, PrOthers>>

\* lines 203-211: an object that is no table with a schema and a name
PrSkip ==
    /\ pr_pc = "loop"
    /\ pr_i <= Len(objs)
    /\ ~is_table(objs[pr_i])
    /\ pr_i' = pr_i + 1
    /\ UNCHANGED <<pr_pc, pr_files, objs, pr_table, issued, pr_exit, PrOthers>>

\* lines 203-221: one table of the loop; nothing catches what its statements
\* raise, so the exception ends the run with status 1
PrProcess ==
    /\ pr_pc = "loop"
    /\ pr_i <= Len(objs)
    /\ is_table(objs[pr_i])
    /\ \E o \in Outcomes :
          LET n == UpperStr(objs[pr_i].object_name)
              found == UpperStr(objs[pr_i].schema) = <<"S">> /\ n \in TableNames
              left == IF found THEN process_object(pr_table[n], objs[pr_i].change_type, o)
                      ELSE Left(<<>>, {}, TRUE)
          IN  /\ pr_table' = IF found THEN [pr_table EXCEPT ![n] = left.t] ELSE pr_table
              /\ issued' = left.issued
              /\ IF left.raised
                 THEN PrExit(1) /\ UNCHANGED pr_i
                 ELSE pr_i' = pr_i + 1 /\ UNCHANGED <<pr_pc, pr_exit>>
    /\ UNCHANGED <<pr_files, objs, PrOthers>>

\* lines 223-224
PrEnd ==
    /\ pr_pc = "loop"
    /\ pr_i > Len(objs)
    /\ PrExit(0)
    /\ UNCHANGED <<pr_files, objs, pr_i, pr_table, issued, PrOthers>>

NextPr == PrStart \/ PrSkip \/ PrProcess \/ PrEnd

SpecPr == InitPr /\ [][NextPr]_vars

\* the functions of lines 143-178 on their own, each applied to table T in any
\* order; pr_pc names the function applied last, pr_exit is 1 when it raised
InitPrCalls ==
    /\ GateIdle
    /\ TwiceIdle
    /\ PipelineIdle
    /\ CloneIdle
    /\ RestoreIdle
    /\ RollbackIdle
    /\ MirrorIdle
    /\ LogicIdle
    /\ pr_pc = "call"
    /\ pr_files = <<>>
    /\ objs = <<>>
    /\ pr_i = 1
    /\ \E c \in ColumnCases :
          pr_table = [n \in TableNames |->
                         IF n = <<"T">> THEN c ELSE PrTable({<<"A">>}, {<<"A">>})]
    /\ issued = {}
    /\ pr_exit = -1

Returned(name, left) ==
    /\ pr_pc' = name
    /\ pr_table' = [pr_table EXCEPT ![<<"T">>] = left.t]
    /\ issued' = left.issued
    /\ pr_exit' = IF left.raised THEN 1 ELSE 0
    /\ UNCHANGED <<pr_files, objs, pr_i, PrOthers>>

CallDataInplace ==
    \E o \in Outcomes :
        Returned("rollback_data_inplace", rollback_data_inplace(pr_table[<<"T">>], o.overwrite))

CallAddedColumns ==
    \E o \in Outcomes :
        Returned("rollback_added_columns",
                 rollback_added_columns(pr_table[<<"T">>], o.clone, o.show, o.drop_ok))

CallDroppedColumns ==
    \E o \in Outcomes :
        Returned("rollback_dropped_columns", rollback_dropped_columns(pr_table[<<"T">>], o.clone))

NextPrCalls == CallDataInplace \/ CallAddedColumns \/ CallDroppedColumns

SpecPrCalls == InitPrCalls /\ [][NextPrCalls]_vars

-----------------------------------------------------------------------------
(* update_dependency_metadata.py: the local mirror of the catalog view     *)
(* ACCOUNT_USAGE.OBJECT_DEPENDENCIES is refreshed.                         *)

\* the latest time of the clock of the database
MaxClock == 3

\* dependency rows the catalog comes to hold
MaxRows == 2

\* runs of the script, one after the other
MaxRefreshes == 2

\* datetime(1970,1,1): before every time of the clock
EPOCH == 0

Max(S) == CHOOSE x \in S : \A y \in S : y <= x

\* the variant that forgets the mark and loads from the beginning each time
get_last_loaded_from_epoch(rows) == EPOCH

\* lines 45-49: SELECT MAX(LOADED_AT), the epoch for an empty table
get_last_loaded(rows) ==
    IF rows = <<>> THEN EPOCH
    ELSE Max({rows[i].loaded_at : i \in 1..Len(rows)})

\* lines 52-60: WHERE CREATED > since_ts
fetch_incremental(view, since_ts) == {r \in view : r.created > since_ts}

\* the rows of a result, in the order of their ids
RECURSIVE Fetchall(_)
Fetchall(rows) ==
    IF rows = {} THEN <<>>
    ELSE LET r == CHOOSE x \in rows : \A y \in rows : x.id <= y.id
         IN  <<r>> \o Fetchall(rows \ {r})

\* lines 63-70: nothing for an empty result, else one INSERT of all the rows;
\* LOADED_AT is not among its columns and takes its default, the current time
load_rows(table, rows, at) ==
    IF rows = {} THEN table
    ELSE table \o [i \in 1..Cardinality(rows) |->
                      [id |-> Fetchall(rows)[i].id, loaded_at |-> at]]

\* a run of the script: where it is, the mark it read, the rows it fetched and
\* the catalog as it was at the fetch
Run(at, since, rows, seen) == [pc |-> at, since |-> since, rows |-> rows, seen |-> seen]

InitMirror ==
    /\ GateIdle
    /\ TwiceIdle
    /\ PipelineIdle
    /\ CloneIdle
    /\ RestoreIdle
    /\ RollbackIdle
    /\ PrIdle
    /\ LogicIdle
    /\ now = 1
    /\ catalog \in {{}, {[id |-> 1, created |-> 1]}}
    /\ mirror = <<>>
    /\ refreshes = <<>>

MirrorOthers ==
    <<gate_vars, res_in, res_out, twice_vars, pipeline_vars, clone_vars, restore_vars,
      rollback_vars, pr_vars, logic_vars>>

running == refreshes # <<>> /\ refreshes[Len(refreshes)].pc \notin {"done", "failed"}

current == refreshes[Len(refreshes)]

Moved(run) == refreshes' = [refreshes EXCEPT ![Len(refreshes)] = run]

\* the run stops at a statement that raises: finally closes, status 1
Failed == Moved([current EXCEPT !.pc = "failed"])

\* time passes
Tick ==
    /\ now < MaxClock
    /\ now' = now + 1
    /\ UNCHANGED <<catalog, mirror, refreshes, MirrorOthers>>

\* a dependency comes into being: the view gets a row with CREATED set to the
\* current time
CatalogGrows ==
    /\ Cardinality(catalog) < MaxRows
    /\ catalog' = catalog \cup {[id |-> Cardinality(catalog) + 1, created |-> now]}
    /\ UNCHANGED <<now, mirror, refreshes, MirrorOthers>>

\* lines 74-86: variables checked, connection made, CREATE TABLE IF NOT EXISTS
MirrorBegin ==
    /\ ~running
    /\ Len(refreshes) < MaxRefreshes
    /\ \/ refreshes' = Append(refreshes, Run("last", EPOCH, {}, {}))
       \/ refreshes' = Append(refreshes, Run("failed", EPOCH, {}, {}))
    /\ UNCHANGED <<now, catalog, mirror, MirrorOthers>>

\* line 87
MirrorLast ==
    /\ running
    /\ current.pc = "last"
    /\ \/ Moved([current EXCEPT !.pc = "fetch", !.since = get_last_loaded(mirror)])
       \/ Failed
    /\ UNCHANGED <<now, catalog, mirror, MirrorOthers>>

\* line 89
MirrorFetch ==
    /\ running
    /\ current.pc = "fetch"
    /\ \/ Moved([current EXCEPT !.pc = "load",
                                !.rows = fetch_incremental(catalog, current.since),
                                !.seen = catalog])
       \/ Failed
    /\ UNCHANGED <<now, catalog, mirror, MirrorOthers>>

\* lines 90-94: the INSERT, which commits on its own, then commit and close
MirrorLoad ==
    /\ running
    /\ current.pc = "load"
    /\ \/ /\ mirror' = load_rows(mirror, current.rows, now)
          /\ \/ Moved([current EXCEPT !.pc = "done"])
             \/ Failed
       \/ /\ Failed
          /\ UNCHANGED mirror
    /\ UNCHANGED <<now, catalog, MirrorOthers>>

NextMirror ==
    \/ Tick
    \/ CatalogGrows
    \/ MirrorBegin
    \/ MirrorLast
    \/ MirrorFetch
    \/ MirrorLoad

SpecMirror == InitMirror /\ [][NextMirror]_vars

-----------------------------------------------------------------------------
(* rollback_logic.py: what a failed deployment added is dropped again.     *)

NULL_TEXT == <<"n", "u", "l", "l">>
UU == <<"_", "_">>
DOT_SQL == <<".", "s", "q", "l">>
FULL_SETUP == <<"F", "U", "L", "L", "_", "S", "E", "T", "U", "P">>
DASHES == <<"-", "-">>

\* index of the first occurrence of sub in s, 0 when there is none
Find(s, sub) ==
    LET at == {i \in 1..(Len(s) - Len(sub) + 1) : SubSeq(s, i, i + Len(sub) - 1) = sub}
    IN  IF at = {} THEN 0 ELSE CHOOSE i \in at : \A j \in at : i <= j

\* str.split(sep)
RECURSIVE SplitBy(_, _)
SplitBy(s, sep) ==
    LET i == Find(s, sep)
    IN  IF i = 0 THEN <<s>>
        ELSE <<SubSeq(s, 1, i - 1)>> \o SplitBy(SubSeq(s, i + Len(sep), Len(s)), sep)

\* str.replace(sub, '')
RECURSIVE Without(_, _)
Without(s, sub) ==
    LET i == Find(s, sub)
    IN  IF i = 0 THEN s
        ELSE SubSeq(s, 1, i - 1) \o Without(SubSeq(s, i + Len(sub), Len(s)), sub)

\* str.endswith(suffix)
EndsWith(s, suffix) ==
    Len(s) >= Len(suffix) /\ SubSeq(s, Len(s) - Len(suffix) + 1, Len(s)) = suffix

\* names of files as they stand in the two folders
F_TABLE == <<"V", "1">> \o UU \o <<"s">> \o UU \o <<"o", "_">> \o LowerStr(KW_TABLE) \o DOT_SQL
F_VIEW == <<"V", "3">> \o UU \o <<"S">> \o UU \o <<"v", "_">> \o LowerStr(KW_VIEW) \o DOT_SQL
F_SETUP == <<"V", "0">> \o UU \o <<"S">> \o UU \o FULL_SETUP_SQL
F_OTHER == <<"V", "2">> \o UU \o <<"S">> \o UU \o <<"a", "d", "d">> \o DOT_SQL
F_SHORT == <<"R">> \o UU \o <<"x">> \o DOT_SQL

\* a folder in the trees of the two commits; join(folder) raises when either
\* tree lacks it
Tree(current_names, previous_names) ==
    [missing |-> FALSE, current |-> current_names, previous |-> previous_names]

NoTree == [missing |-> TRUE, current |-> {}, previous |-> {}]

SetupTrees == {NoTree, Tree({}, {}), Tree({F_SETUP}, {F_SETUP}), Tree({F_SETUP, F_VIEW}, {F_SETUP})}

MigrationTrees ==
    {NoTree, Tree({F_TABLE}, {}), Tree({F_OTHER, F_SHORT}, {}), Tree({F_TABLE}, {F_TABLE})}

\* lines 93-105: the statements for one newly added file
drops_for(filename) ==
    LET parts == SplitBy(filename, UU)
        schema_name == UpperStr(parts[2])
        object_base_name == UpperStr(Without(parts[3], DOT_SQL))
        object_name == Strip(Without(object_base_name, FULL_SETUP), "_")
        target == schema_name \o <<".">> \o object_name \o <<";">>
    IN  IF Len(parts) >= 3
           /\ (\/ Contains(object_base_name, KW_TABLE)
               \/ Contains(object_base_name, KW_VIEW)
               \/ Contains(object_base_name, FULL_SETUP))
           /\ object_name # <<>>
        THEN << <<KW_DROP, KW_TABLE, KW_IF, KW_EXISTS, target>>,
                <<KW_DROP, KW_VIEW, KW_IF, KW_EXISTS, target>> >>
        ELSE <<>>

RECURSIVE drops_for_all(_)
drops_for_all(names) ==
    IF names = {} THEN <<>>
    ELSE LET n == CHOOSE x \in names : TRUE
         IN  drops_for(n) \o drops_for_all(names \ {n})

\* lines 86-110: one folder; a folder that is missing is skipped
folder_drops(tree) ==
    IF tree.missing THEN <<>>
    ELSE LET current_files == {f \in tree.current : EndsWith(f, DOT_SQL)}
             previous_files == {f \in tree.previous : EndsWith(f, DOT_SQL)}
         IN  drops_for_all(current_files \ previous_files)

\* the comment lines of lines 125, 128 and 131
Comment(text) == <<DASHES, text>>

\* lines 69-131
generate_rollback_sqls(commit, repo, setup, migrations) ==
    IF Truthy(commit) /\ commit # NULL_TEXT
    THEN IF repo = "invalid" THEN <<Comment("Git repository error during rollback.")>>
         ELSE IF repo = "error" THEN <<Comment("Error during Git comparison for rollback")>>
         ELSE folder_drops(setup) \o folder_drops(migrations)
    ELSE <<Comment("Last successful commit not found or invalid.")>>

InitLogic ==
    /\ GateIdle
    /\ TwiceIdle
    /\ PipelineIdle
    /\ CloneIdle
    /\ RestoreIdle
    /\ RollbackIdle
    /\ PrIdle
    /\ MirrorIdle
    /\ lg_pc = "start"
    /\ lg_in \in [env_ok : BOOLEAN,
                  commit : {None, <<>>, NULL_TEXT, <<"c", "0">>},
                  history : {<<"error">>, <<"none">>} \cup
                            {<<"row", c>> : c \in {None, <<"c", "0">>}},
                  repo : {"ok", "invalid", "error"},
                  setup : SetupTrees,
                  migrations : MigrationTrees]
    /\ lg_commit = None
    /\ rollback_sqls = <<>>
    /\ lg_executed = <<>>
    /\ lg_exit = -1

LogicOthers ==
    <<gate_vars, res_in, res_out, twice_vars, pipeline_vars, clone_vars, restore_vars,
      rollback_vars, pr_vars, mirror_vars>>

LgExit(status) == lg_pc' = "exit" /\ lg_exit' = status

\* lines 9-36: the variables are checked (sys.exit(1)) and the connection made;
\* an exception of connect is caught at lines 150-155 (sys.exit(1))
LgStart ==
    /\ lg_pc = "start"
    /\ lg_commit' = lg_in.commit
    /\ IF ~lg_in.env_ok THEN LgExit(1)
       ELSE \/ lg_pc' = "history" /\ UNCHANGED lg_exit
            \/ LgExit(1)
    /\ UNCHANGED <<lg_in, rollback_sqls, lg_executed, LogicOthers>>

\* lines 45-62: the commit of the last successful migration, when none was given
LgHistory ==
    /\ lg_pc = "history"
    /\ lg_commit' =
          IF lg_in.history[1] = "row"
             /\ (~Truthy(lg_commit) \/ lg_commit = NULL_TEXT)
          THEN lg_in.history[2]
          ELSE lg_commit
    /\ lg_pc' = "compare"
    /\ UNCHANGED <<lg_in, rollback_sqls, lg_executed, lg_exit, LogicOthers>>

\* lines 67-131
LgCompare ==
    /\ lg_pc = "compare"
    /\ rollback_sqls' =
          generate_rollback_sqls(lg_commit, lg_in.repo, lg_in.setup, lg_in.migrations)
    /\ lg_pc' = "execute"
    /\ UNCHANGED <<lg_in, lg_commit, lg_executed, lg_exit, LogicOthers>>

\* lines 145-148: nothing to execute
LgNothing ==
    /\ lg_pc = "execute"
    /\ rollback_sqls = <<>>
    /\ LgExit(1)
    /\ UNCHANGED <<lg_in, lg_commit, rollback_sqls, lg_executed, LogicOthers>>

\* lines 136-144: one statement of the list; its error is printed, no more
LgExecute ==
    /\ lg_pc = "execute"
    /\ Len(lg_executed) < Len(rollback_sqls)
    /\ \E ok \in BOOLEAN :
          lg_executed' =
              Append(lg_executed, [sql |-> rollback_sqls[Len(lg_executed) + 1], ok |-> ok])
    /\ UNCHANGED <<lg_pc, lg_in, lg_commit, rollback_sqls, lg_exit, LogicOthers>>

\* lines 156-161: the end of the script after the loop
LgEnd ==
    /\ lg_pc = "execute"
    /\ rollback_sqls # <<>>
    /\ Len(lg_executed) = Len(rollback_sqls)
    /\ LgExit(0)
    /\ UNCHANGED <<lg_in, lg_commit, rollback_sqls, lg_executed, LogicOthers>>

NextLogic == LgStart \/ LgHistory \/ LgCompare \/ LgNothing \/ LgExecute \/ LgEnd

SpecLogic == InitLogic /\ [][NextLogic]_vars

-----------------------------------------------------------------------------
(* Properties of the gate.                                                 *)

\* the run ended with the verdict of lines 189-198
Verdict == pc = "exit" /\ out.kind \in {"danger", "success"}

\* the run ended on one of its fatal paths
Fatal ==
    pc = "exit" /\ out.kind \in {"no_database", "unqualified", "connect_failed",
                                 "database_error", "traceback"}

\* the scan loop ended without sys.exit(1)
ScanComplete == pc \in {"connect", "query"} \/ Verdict
                \/ (pc = "exit" /\ out.kind = "no_destructive")

\* the object a dependency dict names as the dependent, as a key string
DependentKey(dep) == KeyStr(dep.dependent_domain, UpperStr(dep.dependent_name))

ObjectKey(k) == KeyStr(k[1], NameOf(k[2], k[3], k[4]))

Last(seq) == seq[Len(seq)]

\* The filter is sound for the set the gate itself collected: no dependency left
\* in the final list has a dependent that is a key of impacted_objects.
SameRunFilterLemma ==
    Verdict =>
        \A i \in 1..Len(truly_blocking_dependencies) :
            DependentKey(truly_blocking_dependencies[i])
                \notin {ObjectKey(k) : k \in KeysOf(impacted_objects)}

\* Every statement of a kind the pattern table knows is seen by the gate,
\* wherever it stands in its file and whichever file it is in.
ScanIsExhaustiveLemma ==
    ScanComplete =>
        {t \in targeted : t[1] \in {"TABLE", "VIEW", "FUNCTION", "PROCEDURE", "STAGE",
                                    "FILE FORMAT", "SEQUENCE"}}
            = KeysOf(impacted_objects)

\* C1: a dependency whose referencing object is itself dropped, truncated or
\* column-dropped by the scripts of the same run is never in the final blocking
\* list of the gate.
C1_SelfConsistency ==
    Verdict =>
        \A i \in 1..Len(truly_blocking_dependencies) :
            DependentKey(truly_blocking_dependencies[i])
                \notin {ObjectKey(t) : t \in targeted}

\* C2: without --dry-run, a run in which a blocking dependency is left after the
\* filter ends with exit status 1, and a run in which none is left and no fatal
\* error occurred ends with exit status 0.
C2_GateDecision ==
    (pc = "exit" /\ ~dry_run) =>
        /\ truly_blocking_dependencies # <<>> => exit_status = 1
        /\ (truly_blocking_dependencies = <<>> /\ ~Fatal) => exit_status = 0
        /\ Fatal => exit_status = 1

C2_Witness ==
    /\ pc = "exit" /\ ~dry_run /\ out.kind = "danger" /\ exit_status = 1
    /\ Len(blocking_dependencies) > Len(truly_blocking_dependencies)

\* C3: with --dry-run the run ends with exit status 0 even when blocking
\* dependencies are left.
C3_DryRunSucceeds ==
    (pc = "exit" /\ dry_run /\ truly_blocking_dependencies # <<>>) => exit_status = 0

\* C4: when the scanner matches a one-part identifier in a file whose name gives
\* no schema, the run ends with exit status 1 and a message naming the file and
\* the identifier as written, and no catalog connection or query follows.
C4_UnresolvableIsFatal ==
    (\E i \in 1..Len(last_scan.unresolved) :
        OnePartNoSchema(last_scan.unresolved[i], DefaultSchemaOf(last_scan.file)))
    => /\ pc = "exit" /\ exit_status = 1
       /\ out.kind = "unqualified"
       /\ out.file = last_scan.file
       /\ out.name = Head(last_scan.unresolved)
       /\ queried = <<>> /\ ~conn_open

C4_Witness ==
    /\ pc = "exit" /\ exit_status = 1
    /\ out = [kind |-> "unqualified", name |-> ID_T, file |-> FN_UNTAGGED]
    /\ impacted_objects # <<>>

\* C5 as stated: a 3-part identifier is returned unchanged modulo case, a 2-part
\* identifier becomes (default database, part 1, part 2), a 1-part identifier with a
\* default schema becomes (default database, default schema, part 1).
C5_AsStated ==
    res_out # <<>> =>
        LET parts == Split(res_in.name, ".")
            U(x) == UpperStr(x)
        IN  /\ Len(parts) = 3 => res_out = <<U(parts[1]), U(parts[2]), U(parts[3])>>
            /\ Len(parts) = 2 => res_out = <<res_in.default_db, U(parts[1]), U(parts[2])>>
            /\ (Len(parts) = 1 /\ Truthy(res_in.default_schema))
                    => res_out = <<res_in.default_db, res_in.default_schema, U(parts[1])>>

\* C5 amended: the same mapping, the parts being upper-cased and stripped of
\* every double quote.
C5_Resolution ==
    res_out # <<>> =>
        LET parts == Split(res_in.name, ".")
            N(x) == RemoveChar(UpperStr(x), "\"")
        IN  /\ Len(parts) = 3 => res_out = <<N(parts[1]), N(parts[2]), N(parts[3])>>
            /\ Len(parts) = 2 => res_out = <<res_in.default_db, N(parts[1]), N(parts[2])>>
            /\ (Len(parts) = 1 /\ Truthy(res_in.default_schema))
                    => res_out = <<res_in.default_db, res_in.default_schema, N(parts[1])>>

C5_Witness ==
    /\ res_out = <<<<"A">>, <<"B">>, <<"A">>>>
    /\ res_in.name = <<"\"", "a", ".", "B", ".", "a">>

\* C6: every object that is queried, and every impacted object, has a non-null,
\* non-empty database, schema and name; a matched identifier that gives no such
\* triple (too many parts, an empty part, one part without a default schema)
\* ends the run with status 1 before a connection is opened or a query issued.
C6_ResolvedBeforeQuery ==
    /\ \A k \in KeysOf(impacted_objects) \cup Range(queried) :
            \A i \in 2..4 : k[i] # None /\ k[i] # <<>>
    /\ Range(queried) \subseteq KeysOf(impacted_objects)
    /\ last_scan.unresolved # <<>>
            => pc = "exit" /\ exit_status = 1 /\ queried = <<>> /\ ~conn_open

C6_Witness ==
    /\ pc = "exit" /\ exit_status = 1
    /\ out.kind = "unqualified" /\ out.name = ID_EMPTY_PART
    /\ queried = <<>>

\* C7: the objects the gate holds as dropped are exactly the objects the DROP,
\* TRUNCATE and ALTER TABLE ... DROP COLUMN statements of the scanned scripts
\* target, for every object domain.
C7_DroppedSetExact ==
    ScanComplete => KeysOf(impacted_objects) = targeted

\* C8: after a file with several destructive statements is read, every one of
\* them has produced an impacted object, and when the scan is over so has every
\* destructive statement of every file of every folder.
C8_EveryStatementSeen ==
    /\ (pc = "scan" /\ Len(last_scan.targets) >= 2)
            => Range(last_scan.targets) \subseteq KeysOf(impacted_objects)
    /\ ScanComplete => targeted \subseteq KeysOf(impacted_objects)

\* C9: an object whose query raised the not-found error contributes no
\* dependency, does not end the run, and the objects after it are still queried.
C9_NotFoundIsSkipped ==
    LET not_found == {f \in failed_queries : f.text = NOT_FOUND_TEXT}
    IN  /\ \A f \in not_found : \A i \in 1..Len(blocking_dependencies) :
            ~(/\ blocking_dependencies[i].dropped_domain = f.key[1]
              /\ blocking_dependencies[i].dropped_name = NameOf(f.key[2], f.key[3], f.key[4]))
        /\ (pc = "exit" /\ out.kind \in {"database_error", "traceback"})
                => \A f \in not_found : f.key # Last(queried)
        /\ pc = "query" => Len(queried) = qi - 1
        /\ Verdict => queried = [i \in 1..Len(impacted_objects) |-> impacted_objects[i].key]

C9_Witness ==
    /\ pc = "exit" /\ out.kind = "danger" /\ exit_status = 1
    /\ Len(queried) = 2
    /\ [key |-> queried[1], text |-> NOT_FOUND_TEXT, cause |-> "missing"] \in failed_queries
    /\ truly_blocking_dependencies # <<>>

\* C10: a run in which a dependency query failed for another reason than the
\* object not existing ends with exit status 1.
C10_OtherFailureIsFatal ==
    (pc = "exit" /\ \E f \in failed_queries : f.cause # "missing") => exit_status = 1

-----------------------------------------------------------------------------
(* Properties of two runs of the gate.                                     *)

\* the run produced a report or got as far as the catalog: its scan was complete
ScanWasComplete(r) == r.kind \in {"no_destructive", "connect_failed", "database_error",
                                  "danger", "success"}

SameOutcome(a, b) ==
    /\ a.status = b.status
    /\ a.kind = b.kind
    /\ ScanWasComplete(a) => KeysOf(a.impacted) = KeysOf(b.impacted)
    /\ Range(a.blocking) = Range(b.blocking)

\* C11: two runs of the gate on the same scripts and the same catalog end with
\* the same exit status, the same impacted objects and the same blocking
\* dependencies, in whatever order the files are listed and the rows returned,
\* and no run changes the scripts or the catalog.
C11_GateIdempotence ==
    [][/\ env' = env
       /\ Len(runs') = 2 => SameOutcome(runs'[1], runs'[2])]_vars

C11_Witness ==
    /\ Len(runs) = 2
    /\ runs[1].kind = "danger" /\ runs[1].status = 1
    /\ runs[1].impacted # runs[2].impacted
    /\ Len(runs[1].impacted) = 2
    /\ Len(runs[1].blocking) = 1

-----------------------------------------------------------------------------
(* Properties of the pipeline around the gate.                             *)

\* C12: once the gate has classified the change set as blocked the run has
\* ended with status 1 and no rollback generation, snapshot or apply follows;
\* a step after the gate is only taken when the gate ended with status 0, with
\* every impacted object resolved and no blocking dependency left, and the apply
\* only after a preparation step.
C12_BlockedIsTerminal ==
    /\ truly_blocking_dependencies # <<>>
            => pc = "exit" /\ exit_status = 1 /\ steps = <<>>
    /\ (pc = "exit" /\ exit_status = 1) => steps = <<>>
    /\ steps # <<>> =>
            /\ pc = "exit" /\ exit_status = 0
            /\ out.kind \in {"success", "no_destructive"}
            /\ truly_blocking_dependencies = <<>>
            /\ \A k \in KeysOf(impacted_objects) : \A i \in 2..4 : Truthy(k[i])
            /\ steps[1] \in PipelineSteps

C12_Witness ==
    /\ out.kind = "success"
    /\ blocking_dependencies # <<>>
    /\ Len(steps) = 3 /\ steps[3] = "APPLIED"

-----------------------------------------------------------------------------
(* Properties of clone_tables.py.                                          *)

\* SNOWFLAKE_DATABASE and SNOWFLAKE_SCHEMA of the connection, upper-cased
CLONE_DB == <<"P">>
CLONE_SCHEMA == <<"D">>

\* the table a DROP TABLE or TRUNCATE TABLE statement is about
SnapshotTarget(st) == parse_fully_qualified_name(st.name, CLONE_DB, CLONE_SCHEMA)

\* the table a clone was taken of
ClonedTable(c) == <<CLONE_DB, UpperStr(c.source[1]), UpperStr(c.source[2])>>

NeedsSnapshot(st) ==
    \/ st.op = "DROP_OBJECT" /\ st.domain = "TABLE"
    \/ st.op = "TRUNCATE"

\* the script ended and lets the change go on
CloneDone == clone_pc = "exit" /\ clone_exit = 0

\* C13: when the snapshot step has ended with success and no clone failed, every
\* table that a DROP TABLE or TRUNCATE TABLE statement of a changed script is
\* about, written with one, two or three parts and with or without IF EXISTS,
\* has a clone.
C13_SnapshotBeforeChange ==
    (CloneDone /\ clone_failed = {}) =>
        \A i \in 1..Len(changed_files(diffs)) :
            \A j \in 1..Len(changed_files(diffs)[i].stmts) :
                LET st == changed_files(diffs)[i].stmts[j]
                IN  NeedsSnapshot(st) =>
                        \E c \in cloned : ClonedTable(c) = SnapshotTarget(st)

\* C14: a run in which the clone of a table failed does not end with success.
C14_FailedSnapshotIsFatal ==
    (clone_pc = "exit" /\ clone_failed # {}) => clone_exit # 0

\* C16: every clone carries a retention period of more than one day.
C16_MultiDayRetention ==
    \A c \in cloned : c.retention_set /\ c.retention > 1

-----------------------------------------------------------------------------
(* Properties of rollback_time_travel.py.                                  *)

\* C15: the backup table of a rollback is not dropped by the program unless the
\* restore it was made for has succeeded: a table whose backup was dropped holds
\* its restored data.
C15_BackupOutlivesFailedRestore ==
    \A n \in TableNames :
        (rt_pc # "idle" /\ table_state[n].backup = "dropped")
            => table_state[n].data = "restored"

\* the tables the loop of main goes through: those of --tables, sanitized, or
\* without them the base tables of the schema
tables_to_restore ==
    LET named == [i \in 1..Len(rt_args) |-> UpperStr(Strip(rt_args[i], "\""))]
    IN  IF named = <<>> THEN rt_listing ELSE named

\* C22: once the loop over the tables has begun, the run ends only with status
\* 0 and after rollback_table was called for every table of the list, in the
\* order of the list, and the tables with an error printed are exactly those
\* whose call failed.
C22_FailuresIsolatedPerTable ==
    (rt_pc = "exit" /\ attempts # <<>>) =>
        /\ rt_exit = 0
        /\ [i \in 1..Len(attempts) |-> attempts[i].table] = tables_to_restore
        /\ rt_errors = {attempts[i].table : i \in {j \in 1..Len(attempts) : attempts[j].failed}}

C22_Witness ==
    /\ rt_pc = "exit"
    /\ rt_exit = 0
    /\ Len(attempts) = 2
    /\ attempts[1].failed
    /\ ~attempts[2].failed
    /\ attempts[1].table # attempts[2].table

\* C28: a table never holds truncated content while its backup table is gone:
\* after rollback_table it holds the content it had or the content of the
\* timestamp.
C28_RestoreNeverLosesData ==
    \A n \in TableNames :
        (rt_pc # "idle" /\ table_state[n].data = "truncated")
            => table_state[n].backup = "exists"

-----------------------------------------------------------------------------
(* Properties of the rollback generator.                                   *)

\* file i was read and generate_rollback returned for it
Processed(i) == i \in 1..Len(rb_files) /\ rb_i > i

\* the statements written to the artifact of file i; none when there is no artifact
ArtifactLines(i) ==
    IF \E a \in 1..Len(artifacts) : artifacts[a].file = i
    THEN artifacts[CHOOSE a \in 1..Len(artifacts) : artifacts[a].file = i].lines
    ELSE <<>>

\* the table and the column of a script as its text names them
Written(st, name) == IF st.lower THEN LowerStr(name) ELSE name

\* a line ALTER TABLE t ADD COLUMN c <type>;
IsAddColumn(l) == Len(l) = 7 /\ l[4] = KW_ADD /\ l[5] = KW_COLUMN

\* a line ALTER TABLE t ALTER COLUMN c SET DATA TYPE <type>;
IsSetDataType(l) == Len(l) = 10 /\ l[7] = KW_SET /\ l[8] = KW_DATA /\ l[9] = KW_TYPE

\* the type a line ends with, without the ';'
TypeOfLine(l) == SubSeq(l[Len(l)], 1, Len(l[Len(l)]) - 1)

\* the type of a row of the catalog as SQL writes it
CatalogTypeText(row) ==
    CASE row = ROW_NUMBER -> <<"N", "U", "M", "B", "E", "R", "(", "1", "0", ",", "2", ")">>
      [] row = ROW_VARCHAR -> <<"V", "A", "R", "C", "H", "A", "R", "(", "2", "0", ")">>
      [] row = ROW_VARCHAR_50 -> <<"V", "A", "R", "C", "H", "A", "R", "(", "5", "0", ")">>
      [] row = ROW_DATE -> <<"D", "A", "T", "E">>

\* the lookups made for table t and column c while file i was processed
Asked(i, t, c) ==
    {k \in 1..Len(lookups) : lookups[k].file = i /\ lookups[k].tbl = t /\ lookups[k].col = c}

\* a script ALTER TABLE t ADD COLUMN c <type>
PlainAddColumn(st) == st.op = "ADD_COLUMN" /\ ~st.ifx

C18_NeverGuessesType ==
    \A i \in 1..Len(rb_files) : \A n \in 1..Len(ArtifactLines(i)) :
        LET l == ArtifactLines(i)[n]
        IN  IsAddColumn(l) =>
                /\ Asked(i, l[3], l[6]) # {}
                /\ \A k \in Asked(i, l[3], l[6]) :
                      IF lookups[k].row # None
                      THEN /\ TypeOfLine(l) = CatalogTypeText(lookups[k].row)
                           /\ TypeOfLine(l) # PLACEHOLDER
                      ELSE TypeOfLine(l) = PLACEHOLDER

C18_Witness ==
    /\ rb_pc = "exit"
    /\ rb_exit = 0
    /\ \E i, j \in 1..Len(rb_files) :
          /\ \E n \in 1..Len(ArtifactLines(i)) :
                /\ IsAddColumn(ArtifactLines(i)[n])
                /\ TypeOfLine(ArtifactLines(i)[n]) = PLACEHOLDER
          /\ \E n \in 1..Len(ArtifactLines(j)) :
                /\ IsAddColumn(ArtifactLines(j)[n])
                /\ TypeOfLine(ArtifactLines(j)[n]) = CatalogTypeText(ROW_VARCHAR)
                /\ \E k \in Asked(j, <<"S", ".", "T">>, <<"C">>) : lookups[k].row = ROW_VARCHAR

\* C19: every statement ALTER TABLE t DROP COLUMN [IF EXISTS] c of a processed
\* file has an inverse ALTER TABLE t ADD COLUMN c <type>; for the same table and
\* column in the rollback written for the file.
C19_EveryDropColumnReversed ==
    \A i \in 1..Len(rb_files) :
        Processed(i) /\ rb_files[i].script.op = "DROP_COLUMN" =>
            LET st == rb_files[i].script
            IN  \E n \in 1..Len(ArtifactLines(i)) :
                    /\ IsAddColumn(ArtifactLines(i)[n])
                    /\ ArtifactLines(i)[n][3] = Written(st, st.tbl)
                    /\ ArtifactLines(i)[n][6] = Written(st, st.col)

\* the catalog as it was before the script of file i changed it
prior_catalog(i) == apply_scripts(Catalog(pre_image), rb_files, 1, i - 1)

\* C20: the type of every inverse ALTER COLUMN ... SET DATA TYPE written for a
\* file is the type column C had before the script of the file changed it (the
\* placeholder when it cannot be told), however many of the scripts had been
\* applied when the generator ran.
C20_RestoresPriorType ==
    \A i \in 1..Len(rb_files) :
        Processed(i) /\ rb_files[i].script.op = "ALTER_TYPE" =>
            \A n \in 1..Len(ArtifactLines(i)) :
                LET l == ArtifactLines(i)[n]
                    prior == prior_catalog(i)
                IN  IsSetDataType(l) =>
                        \/ TypeOfLine(l) = PLACEHOLDER
                        \/ /\ <<"C">> \in DOMAIN prior
                           /\ TypeOfLine(l) = CatalogTypeText(prior[<<"C">>])

\* C21: once the files are being read the run ends only after the last file
\* and with status 0: a lookup that fails is skipped and does not end the run.
C21_LookupFailureIsSkipped ==
    [][(rb_pc = "files" /\ rb_pc' = "exit") => (rb_exit' = 0 /\ rb_i > Len(rb_files))]_vars

-----------------------------------------------------------------------------
(* Properties of the gate: comments, literals and the order of its steps.  *)

\* C27: every impacted object is the object of a destructive statement of a
\* scanned script: text inside a comment or a string literal adds none.
C27_CommentsAndLiteralsIgnored ==
    \A i \in 1..Len(impacted_objects) : impacted_objects[i].key \in targeted

\* a connection was attempted
ConnectionAttempted ==
    \/ pc \in {"connect", "query"}
    \/ conn_open
    \/ queried # <<>>
    \/ out.kind \in {"connect_failed", "danger", "success", "database_error", "traceback"}

\* C30: a connection is attempted only when a scanned script holds a
\* destructive statement, and from the attempt on nothing is scanned or
\* resolved any more.
C30_ScanThenConnect ==
    /\ [](ConnectionAttempted => targeted # {})
    /\ [][(pc \in {"connect", "query"}) =>
            (/\ nfiles' = nfiles
             /\ impacted_objects' = impacted_objects
             /\ targeted' = targeted
             /\ folder' = folder)]_vars

-----------------------------------------------------------------------------
(* Properties of rollback.py.                                              *)

\* C23: in the loop of main a failure on one table (clone, overwrite, column
\* drop) does not keep the remaining tables of the batch from being processed:
\* the loop is left only once every object of the batch has had its turn
C23_BatchSurvivesFailure ==
    [][(pr_pc = "loop" /\ pr_pc' = "exit") => pr_i > Len(objs)]_vars

\* the stored column names of T that the snapshot of the merge does not have
added_columns(t) == t.columns \ t.old

\* C24: a call of rollback_added_columns that reaches its loop issues DROP
\* COLUMN for every column of the table that the snapshot does not have and
\* for no column of the snapshot, and a failed drop does not stop the others
C24_DropsExactlyAdded ==
    [][(pr_pc' = "rollback_added_columns" /\ pr_exit' = 0) =>
          {d.column : d \in issued'} = added_columns(pr_table[<<"T">>])]_vars

\* C25: rollback_dropped_columns leaves the columns and the data of the table
\* as they are; all it does is the recovery clone
C25_DroppedNotRestored ==
    [][(pr_pc' = "rollback_dropped_columns") =>
          /\ pr_table'[<<"T">>].columns = pr_table[<<"T">>].columns
          /\ pr_table'[<<"T">>].data = pr_table[<<"T">>].data
          /\ pr_table'[<<"T">>].old = pr_table[<<"T">>].old
          /\ pr_table'[<<"T">>].clones \in {pr_table[<<"T">>].clones,
                                           pr_table[<<"T">>].clones \cup {"recover"}}
          /\ issued' = {}]_vars

\* a table that lost a column since the merge went through
\* rollback_dropped_columns, which made its clone
C25_Witness ==
    /\ pr_pc = "rollback_dropped_columns"
    /\ pr_exit = 0
    /\ pr_table[<<"T">>].old \ pr_table[<<"T">>].columns # {}
    /\ "recover" \in pr_table[<<"T">>].clones

-----------------------------------------------------------------------------
(* Properties of update_dependency_metadata.py.                            *)

\* the rows that a step adds to the mirror
appended == SubSeq(mirror', Len(mirror) + 1, Len(mirror'))

created_of(id) == (CHOOSE r \in catalog : r.id = id).created

\* C26: a refresh only appends to the mirror; the rows it appends are catalog
\* rows newer than the mark it read; a completed refresh followed by a refresh
\* that sees the same catalog inserts nothing; no catalog row is stored twice
C26_AppendOnlyIdempotent ==
    /\ [][/\ Len(mirror') >= Len(mirror)
          /\ SubSeq(mirror', 1, Len(mirror)) = mirror
          /\ \A i \in 1..Len(appended) :
                /\ running
                /\ created_of(appended[i].id) > current.since
                /\ current.since = get_last_loaded(mirror)]_vars
    /\ [](\A i \in 1..Len(refreshes) - 1 :
             (/\ refreshes[i].pc = "done"
              /\ refreshes[i + 1].pc \in {"load", "done"}
              /\ refreshes[i + 1].seen = refreshes[i].seen)
             => refreshes[i + 1].rows = {})
    /\ [](\A i, j \in 1..Len(mirror) : mirror[i].id = mirror[j].id => i = j)

\* a refresh loaded every row of a catalog of two rows, and the refresh after
\* it saw the same catalog and completed
C26_Witness ==
    /\ Len(refreshes) >= 2
    /\ refreshes[Len(refreshes)].pc = "done"
    /\ refreshes[Len(refreshes) - 1].pc = "done"
    /\ refreshes[Len(refreshes)].seen = refreshes[Len(refreshes) - 1].seen
    /\ Cardinality(refreshes[Len(refreshes)].seen) = 2
    /\ Len(mirror) = 2

-----------------------------------------------------------------------------
(* Properties of rollback_logic.py.                                        *)

\* a statement that is more than a comment line
is_real(sql) == Head(sql) # DASHES

\* C29: the job ends with status 0 only if a real rollback statement was
\* generated and executed; without any such statement, as when the last
\* successful commit is unknown or the comparison fails, it ends with a
\* failure status
C29_SuccessMeansAction ==
    (lg_pc = "exit" /\ lg_exit = 0) =>
        \E i \in 1..Len(lg_executed) : is_real(lg_executed[i].sql)

====
